---------------------------- MODULE Spec2Model ----------------------------
(***************************************************************************)
(* A model of the OLI Hardhat plugin (openlabelsinitiative/oli-hardhat):   *)
(* the CAIP identifier helpers, the chain-aware validators and the         *)
(* submission client (OliClient).                                          *)
(*                                                                         *)
(* Strings are sequences of one-character strings, so that indexOf, slice, *)
(* toLowerCase and the regular expressions of the source are computed      *)
(* character by character.  JavaScript's `undefined` is the one-element    *)
(* sequence Undefined, whose element is not a character.                   *)
(***************************************************************************)
EXTENDS Integers, Sequences, FiniteSets, TLC

VARIABLES
    signer,          \* OliClient.signer: TRUE when a signer is configured
    definitions,     \* OliClient.tagDefinitions and OliClient.valueSets
    cacheFile,       \* the definitions cache file .oli-cache.json
    now,             \* Date.now(), in milliseconds
    call,            \* the client call in progress and its position
    trace,           \* what the call in progress has done so far, in order
    response,        \* what the last call returned or threw
    pin,             \* the input of the pure-function specifications
    pout             \* the outcome of the pure function applied to pin

-----------------------------------------------------------------------------
(* Bounds of the model *)

\* the longest string enumerated exhaustively over StrAlphabet
MaxStrLen == 5

\* the most labels in one bulk submission
MaxBulk == 3

-----------------------------------------------------------------------------
(* JavaScript string primitives *)

Undefined == <<"undefined">>

UpperChars == <<"A","B","C","D","E","F","G","H","I","J","K","L","M",
                "N","O","P","Q","R","S","T","U","V","W","X","Y","Z">>
LowerChars == <<"a","b","c","d","e","f","g","h","i","j","k","l","m",
                "n","o","p","q","r","s","t","u","v","w","x","y","z">>
DigitChars == {"0","1","2","3","4","5","6","7","8","9"}

\* the lower-case letter of every upper-case letter
LowerOfUpper ==
    [c \in {UpperChars[i] : i \in 1..Len(UpperChars)} |->
        LowerChars[CHOOSE i \in 1..Len(UpperChars) : UpperChars[i] = c]]

\* String.prototype.toLowerCase, one character
toLowerChar(c) == IF c \in DOMAIN LowerOfUpper THEN LowerOfUpper[c] ELSE c

\* String.prototype.toLowerCase
toLowerCase(s) == [i \in 1..Len(s) |-> toLowerChar(s[i])]

\* String.prototype.indexOf(c, from): 0-based, -1 when c does not occur
indexOf(s, c, from) ==
    LET hits == {i \in 0..(Len(s) - 1) : i >= from /\ s[i + 1] = c}
    IN  IF hits = {} THEN -1
        ELSE CHOOSE i \in hits : \A j \in hits : i <= j

\* String.prototype.slice(a, b) for 0 <= a, b: characters a .. b-1 (0-based)
slice(s, a, b) ==
    LET e == IF b > Len(s) THEN Len(s) ELSE b
    IN  IF a >= e THEN <<>> ELSE SubSeq(s, a + 1, e)

\* /^[0-9]+$/.test(s)
IsDigits(s) == Len(s) >= 1 /\ \A i \in 1..Len(s) : s[i] \in DigitChars

-----------------------------------------------------------------------------
(* src/src/encoding.ts: CAIP-10 *)

\* /^([^:]*):([^:]*):([^:]*)$/ : the expression with * for +, which lets a
\* segment be empty; C9 does not hold of it
CAIP10_REGEX_STAR(value) ==
    LET i1 == indexOf(value, ":", 0)
        i2 == IF i1 = -1 THEN -1 ELSE indexOf(value, ":", i1 + 1)
        i3 == IF i2 = -1 THEN -1 ELSE indexOf(value, ":", i2 + 1)
    IN  [ok |-> i1 >= 0 /\ i2 >= i1 + 1 /\ i3 = -1, i1 |-> i1, i2 |-> i2]

\* CAIP10_REGEX = /^([^:]+):([^:]+):([^:]+)$/ : the positions of the two
\* separators when the expression matches.  [^:]+ cannot cross a ':', so the
\* first group ends at the first ':' and the second at the next one.
CAIP10_REGEX(value) ==
    LET i1 == indexOf(value, ":", 0)
        i2 == IF i1 = -1 THEN -1 ELSE indexOf(value, ":", i1 + 1)
        i3 == IF i2 = -1 THEN -1 ELSE indexOf(value, ":", i2 + 1)
    IN  [ok |-> /\ i1 >= 1
                /\ i2 >= i1 + 2
                /\ i2 <= Len(value) - 2
                /\ i3 = -1,
         i1 |-> i1, i2 |-> i2]

\* isCaip10: the regular expression's test, which never throws
isCaip10(value) == CAIP10_REGEX(value).ok

\* a parseCaip10 that cuts the chain id at the first ':' instead of the
\* second; C8 does not hold of it
parseCaip10AtFirst(value) ==
    LET m == CAIP10_REGEX(value)
    IN  IF ~m.ok
        THEN [ok |-> FALSE, chainId |-> <<>>, address |-> <<>>]
        ELSE [ok |-> TRUE,
              chainId |-> slice(value, 0, m.i1),
              address |-> slice(value, m.i1 + 1, Len(value))]

\* parseCaip10: [ok |-> FALSE] models the thrown "Invalid CAIP-10 format"
parseCaip10(value) ==
    LET m == CAIP10_REGEX(value)
    IN  IF ~m.ok
        THEN [ok |-> FALSE, chainId |-> <<>>, address |-> <<>>]
        ELSE LET namespace == slice(value, 0, m.i1)
                 reference == slice(value, m.i1 + 1, m.i2)
                 address   == slice(value, m.i2 + 1, Len(value))
             IN  [ok |-> TRUE,
                  chainId |-> namespace \o <<":">> \o reference,
                  address |-> address]

\* buildCaip10: `${chainId}:${address}`
buildCaip10(chainId, address) == chainId \o <<":">> \o address

-----------------------------------------------------------------------------
(* validation.ts (src/unnamed/part_002) *)

EIP155_PREFIX == <<"e","i","p","1","5","5",":">>
ANY == <<"a","n","y">>

\* a validateCaip2 without the check of the eip155 reference; C10 does not
\* hold of it
validateCaip2AnyReference(chainId) ==
    LET idx == indexOf(chainId, ":", 0)
    IN  ~(\/ idx <= 0
          \/ idx = Len(chainId) - 1
          \/ indexOf(chainId, ":", idx + 1) # -1)

\* validateCaip2: TRUE when it returns true, FALSE when it throws
validateCaip2(chainId) ==
    LET idx == indexOf(chainId, ":", 0)
    IN  IF \/ idx <= 0
           \/ idx = Len(chainId) - 1
           \/ indexOf(chainId, ":", idx + 1) # -1
        THEN FALSE
        ELSE LET prefix == toLowerCase(slice(chainId, 0, idx + 1))
                 rest   == slice(chainId, idx + 1, Len(chainId))
             IN  IF prefix = EIP155_PREFIX
                 THEN rest = ANY \/ IsDigits(rest)
                 ELSE TRUE

\* the characters String.prototype.trim removes
WhiteSpace == {" ", "\t", "\n"}

\* String.prototype.trim
RECURSIVE trimStart(_)
trimStart(s) ==
    IF Len(s) >= 1 /\ s[1] \in WhiteSpace THEN trimStart(Tail(s)) ELSE s

RECURSIVE trimEnd(_)
trimEnd(s) ==
    IF Len(s) >= 1 /\ s[Len(s)] \in WhiteSpace
    THEN trimEnd(SubSeq(s, 1, Len(s) - 1)) ELSE s

trim(s) == trimEnd(trimStart(s))

HexLetterLower == {"a","b","c","d","e","f"}
HexLetterUpper == {"A","B","C","D","E","F"}
IsHexChar(c) == c \in DigitChars \cup HexLetterLower \cup HexLetterUpper

HexDigits == <<"0","1","2","3","4","5","6","7","8","9","a","b","c","d","e","f">>
HexVal(c) == (CHOOSE i \in 1..16 : HexDigits[i] = toLowerChar(c)) - 1

\* String.prototype.toUpperCase, one character
toUpperChar(c) ==
    IF \E i \in 1..Len(LowerChars) : LowerChars[i] = c
    THEN UpperChars[CHOOSE i \in 1..Len(LowerChars) : LowerChars[i] = c]
    ELSE c

\* /^0x[0-9a-fA-F]{n}$/.test(s)
IsPrefixedHex(s, n) ==
    /\ Len(s) = n + 2
    /\ s[1] = "0" /\ s[2] = "x"
    /\ \A i \in 3..Len(s) : IsHexChar(s[i])

\* /^[0-9a-fA-F]{n}$/.test(s)
IsBareHex(s, n) == Len(s) = n /\ \A i \in 1..Len(s) : IsHexChar(s[i])

\* the value ?? of an absent refUid, and the trust lists' refUID
ZeroUid == <<"0","x">> \o [i \in 1..64 |-> "0"]

-----------------------------------------------------------------------------
(* ethers' getAddress, as validation.ts calls it *)

\* Nibble i of keccak256 of the lower-case hex characters.  The hash is a
\* fixed function of the forty characters; this one stands for it.
RECURSIVE WeightedSum(_, _)
WeightedSum(chars, j) ==
    IF j = 0 THEN 0 ELSE j * HexVal(chars[j]) + WeightedSum(chars, j - 1)

HashNibble(chars, sum, i) == (sum + 5 * i + HexVal(chars[i])) % 16

\* getChecksumAddress: upper-case the letters whose hash nibble is >= 8
getChecksumAddress(address) ==
    LET chars == toLowerCase(SubSeq(address, 3, Len(address)))
        sum == WeightedSum(chars, Len(chars))
    IN  <<"0","x">> \o
        [i \in 1..Len(chars) |->
            IF HashNibble(chars, sum, i) >= 8 THEN toUpperChar(chars[i]) ELSE chars[i]]

\* /([A-F].*[a-f])|([a-f].*[A-F])/ : letters of both cases occur
IsMixedCase(address) ==
    /\ \E i \in 1..Len(address) : address[i] \in HexLetterUpper
    /\ \E i \in 1..Len(address) : address[i] \in HexLetterLower

\* getAddress: forty hex characters, the 0x optional; a mixed-case spelling
\* must carry the right checksum.  [ok |-> FALSE] models the thrown error.
\* (ICAP "XE.." addresses, which ethers also accepts, are not among the
\* inputs of this model.)
checkedAddress(a) ==
    LET result == getChecksumAddress(a)
    IN  IF IsMixedCase(a) /\ result # a
        THEN [ok |-> FALSE, value |-> <<>>]
        ELSE [ok |-> TRUE, value |-> result]

getAddress(address) ==
    IF IsPrefixedHex(address, 40) THEN checkedAddress(address)
    ELSE IF IsBareHex(address, 40) THEN checkedAddress(<<"0","x">> \o address)
    ELSE [ok |-> FALSE, value |-> <<>>]

-----------------------------------------------------------------------------
(* validation.ts, continued *)

\* chainId.toLowerCase().startsWith("eip155:")
IsEip155(chainId) ==
    /\ Len(chainId) >= Len(EIP155_PREFIX)
    /\ toLowerCase(SubSeq(chainId, 1, Len(EIP155_PREFIX))) = EIP155_PREFIX

\* a validateAddressForChain that canonicalizes on every chain; C11 does not
\* hold of it
validateAddressForChainLowered(address, chainId) ==
    IF IsEip155(chainId)
    THEN getAddress(address)
    ELSE IF Len(address) = 0 \/ Len(address) > 66
         THEN [ok |-> FALSE, value |-> <<>>]
         ELSE IF \E i \in 1..Len(address) : address[i] = ":"
              THEN [ok |-> FALSE, value |-> <<>>]
              ELSE [ok |-> TRUE, value |-> toLowerCase(address)]

\* validateAddressForChain: [ok |-> FALSE] models the thrown error
validateAddressForChain(address, chainId) ==
    IF IsEip155(chainId)
    THEN getAddress(address)
    ELSE IF Len(address) = 0 \/ Len(address) > 66
         THEN [ok |-> FALSE, value |-> <<>>]
         ELSE IF \E i \in 1..Len(address) : address[i] = ":"
              THEN [ok |-> FALSE, value |-> <<>>]
              ELSE [ok |-> TRUE, value |-> address]

\* a validateRefUid without the test of the regular expression; C4 does not
\* hold of it
validateRefUidUnchecked(refUid) ==
    [ok |-> TRUE, value |-> IF refUid = Undefined THEN ZeroUid ELSE refUid]

\* validateRefUid: refUid ?? the zero digest, then /^0x[0-9a-fA-F]{64}$/
validateRefUid(refUid) ==
    LET value == IF refUid = Undefined THEN ZeroUid ELSE refUid
    IN  IF IsPrefixedHex(value, 64)
        THEN [ok |-> TRUE, value |-> value]
        ELSE [ok |-> FALSE, value |-> <<>>]


-----------------------------------------------------------------------------
(* Tag values and tag mappings *)

\* A tag value: a string, a boolean, a number or an array of strings.  Every
\* value carries all fields, the unused ones at a default.
StrV(s)  == [t |-> "str",  s |-> s,    b |-> FALSE, n |-> 0, frac |-> FALSE, a |-> <<>>]
BoolV(b) == [t |-> "bool", s |-> <<>>, b |-> b,     n |-> 0, frac |-> FALSE, a |-> <<>>]
\* the number n, or n + 1/2 when frac
NumV(n, frac) ==
            [t |-> "num",  s |-> <<>>, b |-> FALSE, n |-> n, frac |-> frac,  a |-> <<>>]
ArrV(a)  == [t |-> "arr",  s |-> <<>>, b |-> FALSE, n |-> 0, frac |-> FALSE, a |-> a]

\* A tag mapping is the sequence of its entries [k, v] in insertion order.
\* An absent mapping (undefined) is UndefinedTags.
UndefinedTags == <<[k |-> Undefined, v |-> StrV(<<>>)]>>

TRUE_STR  == <<"t","r","u","e">>
FALSE_STR == <<"f","a","l","s","e">>

\* the decimal digits of a natural number
RECURSIVE NatToStr(_)
NatToStr(n) ==
    IF n < 10 THEN <<HexDigits[n + 1]>>
    ELSE NatToStr(n \div 10) \o <<HexDigits[(n % 10) + 1]>>

\* Array.prototype.join(sep) of an array of strings
RECURSIVE join(_, _)
join(a, sep) ==
    IF Len(a) = 0 THEN <<>>
    ELSE IF Len(a) = 1 THEN a[1]
    ELSE a[1] \o sep \o join(Tail(a), sep)

\* String(value)
String(v) ==
    CASE v.t = "str"  -> v.s
      [] v.t = "bool" -> IF v.b THEN TRUE_STR ELSE FALSE_STR
      [] v.t = "num"  -> (IF v.n < 0 THEN <<"-">> \o NatToStr(0 - v.n) ELSE NatToStr(v.n))
                         \o (IF v.frac THEN <<".","5">> ELSE <<>>)
      [] v.t = "arr"  -> join(v.a, <<",">>)

\* the value of key k in a mapping: the last entry written under k
ValueOf(entries, k) ==
    entries[CHOOSE i \in 1..Len(entries) :
                /\ entries[i].k = k
                /\ \A j \in (i + 1)..Len(entries) : entries[j].k # k].v

HasKey(entries, k) == \E i \in 1..Len(entries) : entries[i].k = k

\* Object.fromEntries: a key keeps the place of its first entry and takes the
\* value of its last one
RECURSIVE fromEntriesFrom(_, _)
fromEntriesFrom(entries, i) ==
    IF i > Len(entries) THEN <<>>
    ELSE (IF \E j \in 1..(i - 1) : entries[j].k = entries[i].k
          THEN <<>>
          ELSE <<[k |-> entries[i].k, v |-> ValueOf(entries, entries[i].k)]>>)
         \o fromEntriesFrom(entries, i + 1)

fromEntries(entries) == fromEntriesFrom(entries, 1)

-----------------------------------------------------------------------------
(* Tag definitions and value sets (definitions.ts builds them) *)

\* tagDefinitions: a set of [tag_id, type, minLength, maxLength], at most one
\* per tag_id; minLength and maxLength are -1 when the schema has none.
\* valueSets: a set of [tag_id, allowed], allowed a set of strings.

\* the lower-case keys every JavaScript object inherits from Object.prototype
ObjectPrototypeKeys ==
    { <<"c","o","n","s","t","r","u","c","t","o","r">>,
      <<"_","_","p","r","o","t","o","_","_">> }

HasDef(tagDefinitions, tagId) == \E d \in tagDefinitions : d.tag_id = tagId
DefOf(tagDefinitions, tagId) == CHOOSE d \in tagDefinitions : d.tag_id = tagId

HasValueSet(valueSets, tagId) == \E d \in valueSets : d.tag_id = tagId
AllowedOf(valueSets, tagId) == (CHOOSE d \in valueSets : d.tag_id = tagId).allowed

-----------------------------------------------------------------------------
(* validation.ts: normalizeTags, validateTags, validateLabel *)

\* a NormalizeValue that trims and does not coerce; C29 does not hold of it
NormalizeValueUncoerced(val) ==
    IF val.t = "str" THEN StrV(trim(val.s))
    ELSE IF val.t = "arr"
    THEN ArrV([i \in 1..Len(val.a) |-> trim(val.a[i])])
    ELSE val

\* lines 787-797: trim strings, coerce "true"/"false", trim array elements
NormalizeValue(val) ==
    IF val.t = "str"
    THEN LET trimmed == trim(val.s)
         IN  IF trimmed = TRUE_STR THEN BoolV(TRUE)
             ELSE IF trimmed = FALSE_STR THEN BoolV(FALSE)
             ELSE StrV(trimmed)
    ELSE IF val.t = "arr"
    THEN ArrV([i \in 1..Len(val.a) |-> trim(val.a[i])])
    ELSE val

\* a CheckValueSet that compares the value as it is spelled; C15 does not
\* hold of it
CheckValueSetCaseSensitive(tagId, value, stored, valueSets) ==
    IF HasValueSet(valueSets, tagId)
    THEN LET allowed == AllowedOf(valueSets, tagId)
         IN  IF IF value.t = "arr"
                THEN \A i \in 1..Len(value.a) : value.a[i] \in allowed
                ELSE String(value) \in allowed
             THEN [err |-> "", v |-> stored]
             ELSE [err |-> "TagValue", v |-> value]
    ELSE [err |-> "", v |-> stored]

\* lines 816-824: the value-set check of one tag, whose value the loop has
\* so far replaced by stored
CheckValueSet(tagId, value, stored, valueSets) ==
    IF HasValueSet(valueSets, tagId)
    THEN LET allowed == AllowedOf(valueSets, tagId)
         IN  IF IF value.t = "arr"
                THEN \A i \in 1..Len(value.a) : toLowerCase(value.a[i]) \in allowed
                ELSE toLowerCase(String(value)) \in allowed
             THEN [err |-> "", v |-> stored]
             ELSE [err |-> "TagValue", v |-> value]
    ELSE [err |-> "", v |-> stored]

\* lines 804-814: def is an address-typed tag (a string of 42 characters)
IsAddressDef(def) == def.type = "string" /\ def.minLength = 42 /\ def.maxLength = 42

\* lines 806-813: checksummed is what getAddress gave for an address tag
CheckChecksummed(tagId, value, checksummed, valueSets) ==
    IF ~checksummed.ok
    THEN [err |-> "address", v |-> value]
    ELSE CheckValueSet(tagId, value, StrV(checksummed.value), valueSets)

\* lines 799-826 for one tag: [err, v] where err is "" when the loop body
\* completes and v is the value then stored under tagId
CheckTag(tagId, value, tagDefinitions, valueSets) ==
    IF ~HasDef(tagDefinitions, tagId) /\ tagId \notin ObjectPrototypeKeys
    THEN [err |-> "", v |-> value]
    ELSE IF ~HasDef(tagDefinitions, tagId)
    \* tagDefinitions[tagId] and valueSets[tagId] are inherited members of
    \* Object.prototype: truthy, without schema and without includes()
    THEN IF value.t = "arr" /\ Len(value.a) = 0
         THEN [err |-> "", v |-> value]
         ELSE [err |-> "TypeError", v |-> value]
    ELSE IF IsAddressDef(DefOf(tagDefinitions, tagId)) /\ value.t = "str"
    THEN CheckChecksummed(tagId, value, getAddress(value.s), valueSets)
    ELSE CheckValueSet(tagId, value, value, valueSets)

\* a lowerKeys that keeps the keys as they were given; C13 does not hold of
\* it
lowerKeysAsGiven(given) == fromEntries(given)

\* lines 782-785: Object.fromEntries of the entries with lower-cased keys
lowerKeys(given) ==
    fromEntries([i \in 1..Len(given) |->
                    [k |-> toLowerCase(given[i].k), v |-> given[i].v]])

\* lines 787-797, for every entry
normalizeValues(lowered) ==
    [i \in 1..Len(lowered) |-> [k |-> lowered[i].k, v |-> NormalizeValue(lowered[i].v)]]

\* lines 799-828: the outcome of the loop, given the outcome of each tag
loopResult(lower, checks) ==
    LET bad == {i \in 1..Len(lower) : checks[i].err # ""}
    IN  IF bad # {}
        THEN [err |-> checks[CHOOSE i \in bad : \A j \in bad : i <= j].err,
              tags |-> <<>>]
        ELSE [err |-> "",
              tags |-> [i \in 1..Len(lower) |-> [k |-> lower[i].k, v |-> checks[i].v]]]

\* lines 799-828: the loop over the lower-cased, normalized entries
checkLower(lower, tagDefinitions, valueSets) ==
    loopResult(lower, [i \in 1..Len(lower) |->
                          CheckTag(lower[i].k, lower[i].v, tagDefinitions, valueSets)])

\* normalizeTags: [err, tags]; err is "" when it returns, and otherwise names
\* the error of the first tag, in key order, whose check throws
normalizeTags(tags, tagDefinitions, valueSets) ==
    checkLower(normalizeValues(lowerKeys(IF tags = UndefinedTags THEN <<>> ELSE tags)),
               tagDefinitions, valueSets)

\* a TypeOk whose integer check is typeof value === "number"; C14 does not
\* hold of it
TypeOkAnyNumber(tagId, value, tagDefinitions) ==
    IF ~HasDef(tagDefinitions, tagId) THEN TRUE
    ELSE LET type == DefOf(tagDefinitions, tagId).type
         IN  /\ type = "boolean" => value.t = "bool"
             /\ type = "string"  => value.t = "str"
             /\ type = "integer" => value.t = "num"
             /\ type = "float"   => value.t = "num"
             /\ type = "array"   => value.t = "arr"

\* lines 847-861 for one tag: TRUE when no type check throws
TypeOk(tagId, value, tagDefinitions) ==
    IF ~HasDef(tagDefinitions, tagId) THEN TRUE
    ELSE LET type == DefOf(tagDefinitions, tagId).type
         IN  /\ type = "boolean" => value.t = "bool"
             /\ type = "string"  => value.t = "str"
             /\ type = "integer" => (value.t = "num" /\ ~value.frac)
             /\ type = "float"   => value.t = "num"
             /\ type = "array"   => value.t = "arr"

\* lines 845-863: the type checks over what normalizeTags gave
checkTypes(normalized, tagDefinitions) ==
    IF normalized.err # "" THEN normalized
    ELSE IF \E i \in 1..Len(normalized.tags) :
               ~TypeOk(normalized.tags[i].k, normalized.tags[i].v, tagDefinitions)
         THEN [err |-> "TagType", tags |-> <<>>]
         ELSE normalized

\* validateTags: [err, tags]
validateTags(tags, tagDefinitions, valueSets) ==
    IF tags = UndefinedTags
    THEN [err |-> "TagsNotObject", tags |-> <<>>]
    ELSE checkTypes(normalizeTags(tags, tagDefinitions, valueSets), tagDefinitions)

\* lines 821-823: the tag the message of the value-set error names, the
\* first one, in key order, whose check fails
valueErrorTag(lower, tagDefinitions, valueSets) ==
    lower[CHOOSE i \in 1..Len(lower) :
            /\ CheckTag(lower[i].k, lower[i].v, tagDefinitions, valueSets).err # ""
            /\ \A j \in 1..(i - 1) :
                 CheckTag(lower[j].k, lower[j].v, tagDefinitions, valueSets).err = ""].k

\* lines 847-861: the tag the message of the type error names, the first one,
\* in key order, whose check fails
typeErrorTag(normalized, tagDefinitions) ==
    normalized[CHOOSE i \in 1..Len(normalized) :
                 /\ ~TypeOk(normalized[i].k, normalized[i].v, tagDefinitions)
                 /\ \A j \in 1..(i - 1) :
                      TypeOk(normalized[j].k, normalized[j].v, tagDefinitions)].k

\* what the caller of normalizeTags or validateTags sees: the error, the tag
\* its message names (the other errors name none) and the mapping returned
tagsOut(op, tags, result, tagDefinitions, valueSets) ==
    [op |-> op, err |-> result.err, tags |-> result.tags,
     tag |-> IF result.err = "TagValue"
             THEN valueErrorTag(normalizeValues(lowerKeys(tags)), tagDefinitions, valueSets)
             ELSE IF result.err = "TagType"
             THEN typeErrorTag(normalizeTags(tags, tagDefinitions, valueSets).tags,
                               tagDefinitions)
             ELSE <<>>]

\* what validateLabel returns when it throws err
LabelError(err) ==
    [err |-> err, address |-> <<>>, chainId |-> <<>>, normalizedTags |-> <<>>,
     refUid |-> <<>>]

\* lines 875-879: what validateLabel returns after validateCaip2, given what
\* the three validators that follow it gave, in their order
labelResult(chainId, normalizedAddress, normalizedTags, ref) ==
    IF ~normalizedAddress.ok THEN LabelError("Address")
    ELSE IF normalizedTags.err # "" THEN LabelError(normalizedTags.err)
    ELSE IF ~ref.ok THEN LabelError("RefUid")
    ELSE [err |-> "", address |-> normalizedAddress.value, chainId |-> chainId,
          normalizedTags |-> normalizedTags.tags, refUid |-> ref.value]

\* validateLabel: the four checks in the order of the source; err is "" when
\* it returns
validateLabel(address, chainId, tags, refUid, tagDefinitions, valueSets) ==
    IF ~validateCaip2(chainId) THEN LabelError("Caip2")
    ELSE labelResult(chainId, validateAddressForChain(address, chainId),
                     validateTags(tags, tagDefinitions, valueSets),
                     validateRefUid(refUid))


-----------------------------------------------------------------------------
(* src/src/encoding.ts: the encoders and the typed-data builder *)

\* JSON.stringify of one tag value (the strings of the model hold no
\* character that JSON escapes)
Quoted(s) == <<"\"">> \o s \o <<"\"">>

JsonValue(v) ==
    CASE v.t = "str"  -> Quoted(v.s)
      [] v.t = "bool" -> IF v.b THEN TRUE_STR ELSE FALSE_STR
      [] v.t = "num"  -> String(v)
      [] v.t = "arr"  -> <<"[">> \o join([i \in 1..Len(v.a) |-> Quoted(v.a[i])], <<",">>)
                         \o <<"]">>

\* JSON.stringify of a tag mapping: the entries in insertion order
JsonStringify(tags) ==
    <<"{">>
    \o join([i \in 1..Len(tags) |-> Quoted(tags[i].k) \o <<":">> \o JsonValue(tags[i].v)],
            <<",">>)
    \o <<"}">>

\* JSON.stringify of an array whose elements are given by their JSON texts
JsonArray(items) == <<"[">> \o join(items, <<",">>) \o <<"]">>

\* AbiCoder.encode of a tuple of strings.  The encoding is injective and is
\* decoded field by field; it is kept as the tuple of the encoded strings.
AbiEncodeStrings(fields) == fields

\* encodeLabelData(chainId, tagsJson); the client passes the CAIP-10 id as
\* its first argument
encodeLabelData(chainId, tagsJson) == AbiEncodeStrings(<<chainId, JsonStringify(tagsJson)>>)

\* an attesters/attestations value that is absent (undefined)
UndefinedArray == << Undefined >>
\* an attesters/attestations value that is not an array
NotAnArray == << <<"not-an-array">> >>

\* encodeTrustListData: JSON.stringify(x || []) for the two arrays
encodeTrustListData(ownerName, attesters, attestations) ==
    AbiEncodeStrings(<< ownerName,
                        JsonArray(IF attesters = UndefinedArray THEN <<>> ELSE attesters),
                        JsonArray(IF attestations = UndefinedArray THEN <<>>
                                  ELSE attestations) >>)

\* buildOffchainTypedData: the domain and the Attest message
buildOffchainTypedData(params, domain) ==
    [domain |-> domain,
     primaryType |-> "Attest",
     message |-> [version |-> 2,
                  recipient |-> params.recipient,
                  time |-> params.time,
                  revocable |-> params.revocable,
                  schema |-> params.schema,
                  refUID |-> params.refUID,
                  data |-> params.data,
                  expirationTime |-> params.expirationTime,
                  salt |-> params.salt]]

-----------------------------------------------------------------------------
(* src/src/encoding.ts: calculateUidV2 *)

\* A JavaScript number that is a natural number below 2^64, written as its
\* four 16-bit limbs, the most significant first.
Limbs(l3, l2, l1, l0) == <<l3, l2, l1, l0>>

\* ToInt32, which & and >> apply to their left operand: the low 32 bits,
\* read as a signed integer
ToInt32(num) ==
    IF num[3] >= 32768 THEN (num[3] - 65536) * 65536 + num[4]
    ELSE num[3] * 65536 + num[4]

\* lines 108-111: bytes[i] = num & 0xff; num = num >> 8, from the last byte
\* to the first, on the 32-bit integer n
RECURSIVE shiftedBytes(_, _)
shiftedBytes(n, length) ==
    IF length = 0 THEN <<>>
    ELSE shiftedBytes(n \div 256, length - 1) \o <<n % 256>>

\* numberToBytes(num, length)
numberToBytes(num, length) == shiftedBytes(ToInt32(num), length)

\* ethers' getBytes of a string: 0x and an even number of hex digits,
\* [ok |-> FALSE] for the thrown error
getBytes(value) ==
    IF /\ Len(value) >= 2 /\ value[1] = "0" /\ value[2] = "x"
       /\ Len(value) % 2 = 0
       /\ \A i \in 3..Len(value) : IsHexChar(value[i])
    THEN [ok |-> TRUE,
          bytes |-> [i \in 1..((Len(value) - 2) \div 2) |->
                        16 * HexVal(value[2 * i + 1]) + HexVal(value[2 * i + 2])]]
    ELSE [ok |-> FALSE, bytes |-> <<>>]

\* toBytes(value)
toBytes(value) == getBytes(value)

\* the spread of the parts into one Uint8Array
RECURSIVE spread(_)
spread(parts) ==
    IF Len(parts) = 0 THEN <<>> ELSE Head(parts) \o spread(Tail(parts))

\* keccak256 of a byte string.  The digest is a fixed function of the bytes
\* without known collisions: it is kept as the bytes hashed.
keccak256(bytes) == [keccak256 |-> bytes]

NoUidV2 == [ok |-> FALSE, packed |-> <<>>, digest |-> keccak256(<<>>)]

\* lines 90-103, given what toBytes gave for the five digests and addresses
\* and for data, in the order of the source
packedUid(schema, recipient, attester, timestamp, data, expirationTime, revocable, refUID, salt, bump) ==
    IF ~(schema.ok /\ recipient.ok /\ attester.ok /\ refUID.ok /\ data.ok /\ salt.ok)
    THEN NoUidV2
    ELSE LET packed == spread(<< numberToBytes(Limbs(0, 0, 0, 2), 2),
                                 schema.bytes, recipient.bytes, attester.bytes,
                                 numberToBytes(timestamp, 8),
                                 numberToBytes(expirationTime, 8),
                                 IF revocable THEN <<1>> ELSE <<0>>,
                                 refUID.bytes, data.bytes, salt.bytes,
                                 numberToBytes(bump, 4) >>)
         IN  [ok |-> TRUE, packed |-> packed, digest |-> keccak256(packed)]

\* calculateUidV2: [ok |-> FALSE] when toBytes throws
calculateUidV2(schema, recipient, attester, timestamp, data, expirationTime, revocable, refUID, salt, bump) ==
    packedUid(toBytes(schema), toBytes(recipient), toBytes(attester), timestamp,
              toBytes(data), expirationTime, revocable, toBytes(refUID), toBytes(salt),
              bump)

-----------------------------------------------------------------------------
(* constants.ts and config.ts (src/unnamed/part_002) *)

\* HARDHAT_ATTESTATION_RECIPIENT = 0x0000000000000000000000000000000000000003
HARDHAT_ATTESTATION_RECIPIENT == <<"0","x">> \o [i \in 1..39 |-> "0"] \o <<"3">>

DEFAULT_TAG_DEFINITIONS_URL == "https://raw.githubusercontent.com/openlabelsinitiative/OLI/refs/heads/main/1_label_schema/tags/tag_definitions.yml"

\* resolveConfig of a user configuration without overrides: the Base preset
config ==
    [chainId |-> 8453,
     easAddress |-> "0x4200000000000000000000000000000000000021",
     labelPoolSchema |-> "0xcff83309b59685fdae9dad7c63d969150676d51d8eeda66799d1c4898b84556a",
     labelTrustSchema |-> "0x6d780a85bfad501090cd82868a0c773c09beafda609d54888a65c106898c363d",
     tagDefinitionsUrl |-> DEFAULT_TAG_DEFINITIONS_URL,
     cacheTtlMinutes |-> 60]

\* validateNetworkConfig: TRUE when it returns
validateNetworkConfig(cfg) == cfg.easAddress # "" /\ cfg.labelPoolSchema # ""

\* validateTrustList: TRUE when it returns, FALSE when it throws.  The
\* characters of the model are ASCII except NonAscii.
NonAscii == {"é"}
validateTrustList(ownerName, attesters, attestations) ==
    /\ ownerName # Undefined
    /\ Len(ownerName) >= 3 /\ Len(ownerName) <= 100
    /\ \A i \in 1..Len(ownerName) : ownerName[i] \notin NonAscii
    /\ attesters # NotAnArray /\ attesters # UndefinedArray
    /\ attestations # NotAnArray /\ attestations # UndefinedArray


-----------------------------------------------------------------------------
(* src/src/definitions.ts *)

\* what the two remote registries serve: the tag definitions and value sets
\* after the parsing of lines 59-76
RemoteTagDefinitions ==
    { [tag_id |-> <<"i","s","_","c","o","n","t","r","a","c","t">>,
       type |-> "boolean", minLength |-> -1, maxLength |-> -1],
      [tag_id |-> <<"u","s","a","g","e","_","c","a","t","e","g","o","r","y">>,
       type |-> "string", minLength |-> -1, maxLength |-> -1] }

RemoteValueSets ==
    { [tag_id |-> <<"u","s","a","g","e","_","c","a","t","e","g","o","r","y">>,
       allowed |-> { <<"d","e","f","i">>, <<"n","f","t">> }] }

\* readCache returns undefined: no file, or a file that is not JSON
NoCache == [exists |-> FALSE, fetchedAt |-> [valid |-> FALSE, t |-> 0],
            tagDefinitions |-> {}, valueSets |-> {}]

\* a cache file written at time t
CacheAt(t, defs, sets) ==
    [exists |-> TRUE, fetchedAt |-> [valid |-> TRUE, t |-> t],
     tagDefinitions |-> defs, valueSets |-> sets]

\* an isExpired for which a cache is stale from the moment its age is the
\* time to live; C22 does not hold of it
isExpiredAtTtl(fetchedAt, ttlMinutes, clock) ==
    IF ~fetchedAt.valid THEN FALSE
    ELSE clock - fetchedAt.t >= ttlMinutes * 60 * 1000

\* isExpired: new Date(fetchedAt).getTime() is NaN for a fetchedAt that is no
\* date, and every comparison with NaN is false
isExpired(fetchedAt, ttlMinutes, clock) ==
    IF ~fetchedAt.valid THEN FALSE
    ELSE clock - fetchedAt.t > ttlMinutes * 60 * 1000

\* what the remote reads of lines 48-53 may give: "ok", the documents of the
\* registries; "fail", one of the reads rejects; "malformed", the reads
\* succeed with a document that yaml.load (lines 59, 72) cannot parse
FetchOutcomes == {"ok", "fail", "malformed"}

\* loadDefinitions, given the outcome of the remote reads should it make
\* them: the definitions returned, the cache file afterwards, whether the
\* remote reads were made and whether the function threw
loadDefinitions(cached, cfg, clock, outcome) ==
    IF cached.exists /\ ~isExpired(cached.fetchedAt, cfg.cacheTtlMinutes, clock)
    THEN [tagDefinitions |-> cached.tagDefinitions, valueSets |-> cached.valueSets,
          cache |-> cached, fetched |-> FALSE, fetchOk |-> FALSE, thrown |-> FALSE]
    ELSE LET tagUrl == IF cfg.tagDefinitionsUrl = "" THEN DEFAULT_TAG_DEFINITIONS_URL
                       ELSE cfg.tagDefinitionsUrl
         IN  IF tagUrl = ""
             THEN [tagDefinitions |-> {}, valueSets |-> {},
                   cache |-> cached, fetched |-> FALSE, fetchOk |-> FALSE,
                   thrown |-> FALSE]
             ELSE IF outcome = "fail"
             THEN [tagDefinitions |-> {}, valueSets |-> {},
                   cache |-> cached, fetched |-> TRUE, fetchOk |-> FALSE,
                   thrown |-> FALSE]
             ELSE IF outcome = "malformed"
             THEN [tagDefinitions |-> {}, valueSets |-> {},
                   cache |-> cached, fetched |-> TRUE, fetchOk |-> TRUE,
                   thrown |-> TRUE]
             ELSE [tagDefinitions |-> RemoteTagDefinitions,
                   valueSets |-> RemoteValueSets,
                   cache |-> CacheAt(clock, RemoteTagDefinitions, RemoteValueSets),
                   fetched |-> TRUE, fetchOk |-> TRUE, thrown |-> FALSE]

-----------------------------------------------------------------------------
(* client.ts (src/unnamed/part_002): the synchronous helpers of OliClient *)

\* JavaScript truthiness of a string that may be undefined
Falsy(s) == s = Undefined \/ s = <<>>

\* a || b || c on strings that may be undefined
Or3(a, b, c) == IF ~Falsy(a) THEN a ELSE IF ~Falsy(b) THEN b ELSE c

PlaceholderChainIds == { <<"a","u","t","o">>, <<"-">>, <<"_">> }

\* line 89: the chain id is absent or one of the placeholders
chainIdPlaceholder(chainId) == Falsy(chainId) \/ chainId \in PlaceholderChainIds

\* lines 92-99 without the comparison of the two chain ids; C6 does not hold
\* of it
resolveParsedUnchecked(payload, parsed) ==
    [err |-> "",
     label |-> [payload EXCEPT !.address = parsed.address, !.chainId = parsed.chainId]]

\* lines 92-99: the address is a CAIP-10 id and parsed are its parts
resolveParsed(payload, parsed) ==
    IF ~chainIdPlaceholder(payload.chainId) /\ ~Falsy(payload.chainId)
       /\ payload.chainId # parsed.chainId
    THEN [err |-> "Conflict", label |-> payload]
    ELSE [err |-> "",
          label |-> [payload EXCEPT !.address = parsed.address,
                                    !.chainId = parsed.chainId]]

\* resolveLabelInput: err is "" when it returns
resolveLabelInput(payload) ==
    IF isCaip10(payload.address)
    THEN resolveParsed(payload, parseCaip10(payload.address))
    ELSE IF chainIdPlaceholder(payload.chainId)
         THEN [err |-> "ChainIdRequired", label |-> payload]
         ELSE [err |-> "", label |-> payload]

\* lines 149-150: the label OliClient.validateLabel returns, given what
\* validateLabel of validation.ts gave
validatedLabel(payload, v) ==
    IF v.err # "" THEN [err |-> v.err, label |-> payload]
    ELSE [err |-> "",
          label |-> [address |-> v.address, chainId |-> v.chainId,
                     tags |-> v.normalizedTags, refUid |-> v.refUid]]

\* lines 141-150: resolved is what resolveLabelInput gave
validateResolved(payload, resolved, defs, sets) ==
    IF resolved.err # "" THEN resolved
    ELSE validatedLabel(payload,
                        validateLabel(resolved.label.address, resolved.label.chainId,
                                      payload.tags, payload.refUid, defs, sets))

\* OliClient.validateLabel: err is "" when it returns label
clientValidateLabel(payload, defs, sets) ==
    validateResolved(payload, resolveLabelInput(payload), defs, sets)

\* submitLabelBulk, lines 188-199: one bulk record to a LabelPayload
normalizeBulkRecord(l) ==
    LET addressInput == Or3(l.address, l.caip10, l.caip_10)
    IN  IF Falsy(addressInput)
        THEN [err |-> "MissingAddress", label |-> [address |-> <<>>, chainId |-> Undefined,
                                                  tags |-> l.tags, refUid |-> Undefined]]
        ELSE [err |-> "",
              label |-> [address |-> addressInput,
                         chainId |-> LET c == Or3(l.chainId, l.chain_id, l.chainID)
                                     IN  IF Falsy(c) THEN Undefined ELSE c,
                         tags |-> l.tags,
                         refUid |-> LET r == Or3(l.refUid, l.refuid, l.ref_uid)
                                    IN  IF Falsy(r) THEN Undefined ELSE r]]

\* the first element of a sequence of [err, label] whose err is not ""
FirstError(rs) ==
    LET bad == {i \in 1..Len(rs) : rs[i].err # ""}
    IN  IF bad = {} THEN "" ELSE rs[CHOOSE i \in bad : \A j \in bad : i <= j].err

\* the labels of a sequence of [err, label], or its first error
labelsOf(rs) ==
    IF FirstError(rs) # "" THEN [err |-> FirstError(rs), labels |-> <<>>]
    ELSE [err |-> "", labels |-> [i \in 1..Len(rs) |-> rs[i].label]]

\* line 200: Promise.all over validateLabel of the normalized records
validateNormalized(normalized, defs, sets) ==
    IF FirstError(normalized) # "" THEN labelsOf(normalized)
    ELSE labelsOf([i \in 1..Len(normalized) |->
                      clientValidateLabel(normalized[i].label, defs, sets)])

\* submitLabelBulk, lines 188-200: the labels.map that normalizes, which
\* throws at the first record without an address, then Promise.all over
\* validateLabel, which rejects with the error of the first failing record
validateBulk(records, defs, sets) ==
    validateNormalized([i \in 1..Len(records) |-> normalizeBulkRecord(records[i])],
                       defs, sets)


-----------------------------------------------------------------------------
(* client.ts: what the client signs, posts and sends *)

\* the address of the configured signer (signer.getAddress())
SignerAddress == "0xSigner"

\* the EIP-712 domain every off-chain attestation is signed under
Domain ==
    [name |-> "EAS Attestation", version |-> "1.2.0",
     chainId |-> config.chainId, verifyingContract |-> config.easAddress]

\* the on-chain request of a label as the client built it before the marker:
\* the labeled address is the recipient; C7 does not hold of it
onchainLabelRequestToAddress(label) ==
    [version |-> 0,
     schema |-> config.labelPoolSchema,
     recipient |-> label.address,
     time |-> 0,
     expirationTime |-> 0,
     revocable |-> TRUE,
     refUID |-> validateRefUid(label.refUid).value,
     data |-> encodeLabelData(buildCaip10(label.chainId, label.address), label.tags),
     salt |-> ""]

\* An attestation request.  The on-chain requests (attest, multiAttest) have
\* no version, time or salt: these are 0, 0 and "" there, and value is 0n.
\* lines 256-264 and 279-287: the on-chain request of one label
onchainLabelRequest(label) ==
    [version |-> 0,
     schema |-> config.labelPoolSchema,
     recipient |-> HARDHAT_ATTESTATION_RECIPIENT,
     time |-> 0,
     expirationTime |-> 0,
     revocable |-> TRUE,
     refUID |-> validateRefUid(label.refUid).value,
     data |-> encodeLabelData(buildCaip10(label.chainId, label.address), label.tags),
     salt |-> ""]

\* lines 307-316: the on-chain request of a trust list
onchainTrustListRequest(payload) ==
    [version |-> 0,
     schema |-> config.labelTrustSchema,
     recipient |-> HARDHAT_ATTESTATION_RECIPIENT,
     time |-> 0,
     expirationTime |-> 0,
     revocable |-> TRUE,
     refUID |-> ZeroUid,
     data |-> encodeTrustListData(payload.ownerName, payload.attesters,
                                  payload.attestations),
     salt |-> ""]

\* lines 327-344 and 393-410: the typed data of one label
offchainLabelTypedData(label, clock, salt) ==
    buildOffchainTypedData(
        [schema |-> config.labelPoolSchema,
         recipient |-> HARDHAT_ATTESTATION_RECIPIENT,
         time |-> clock \div 1000,
         refUID |-> validateRefUid(label.refUid).value,
         data |-> encodeLabelData(buildCaip10(label.chainId, label.address), label.tags),
         expirationTime |-> 0,
         revocable |-> TRUE,
         salt |-> salt],
        Domain)

\* lines 457-474: the typed data of a trust list
offchainTrustListTypedData(payload, clock, salt) ==
    buildOffchainTypedData(
        [schema |-> config.labelTrustSchema,
         recipient |-> HARDHAT_ATTESTATION_RECIPIENT,
         time |-> clock \div 1000,
         refUID |-> ZeroUid,
         data |-> encodeTrustListData(payload.ownerName, payload.attesters,
                                      payload.attestations),
         expirationTime |-> 0,
         revocable |-> TRUE,
         salt |-> salt],
        Domain)

\* signer.signTypedData: the signature is a function of the key and of what
\* is signed
SignatureOf(typed) == [signedBy |-> SignerAddress, domain |-> typed.domain,
                       message |-> typed.message]

\* keccak256(getBytes(signature)): the UID of an off-chain attestation
UidOfSignature(signature) == [src |-> "signature", message |-> signature.message, k |-> 0]

\* the UID the registry emits for request k of a transaction
UidOfRegistry(request, k) == [src |-> "registry", message |-> request, k |-> k]

NoAttestation ==
    [version |-> 0, schema |-> "", recipient |-> <<>>, time |-> 0, expirationTime |-> 0,
     revocable |-> FALSE, refUID |-> <<>>, data |-> <<>>, salt |-> ""]
NoUid == [src |-> "none", message |-> NoAttestation, k |-> 0]

\* lines 354-376: the attestation posted to the API
postedAttestation(typed, signature) ==
    [sig |-> [domain |-> typed.domain,
              primaryType |-> typed.primaryType,
              message |-> typed.message,
              uid |-> UidOfSignature(signature),
              version |-> 2,
              signature |-> signature],
     signer |-> SignerAddress]


-----------------------------------------------------------------------------
(* The inputs of the client calls *)

AddrA == <<"0","x">> \o [i \in 1..40 |-> IF i % 2 = 1 THEN "1" ELSE "a"]
AddrB == <<"0","x">> \o [i \in 1..40 |-> IF i % 2 = 1 THEN "b" ELSE "2"]
BadAddr == <<"0","x","1","2">>
SolanaAddr == <<"S","o","1","A","d","d","r">>

ChainBase == <<"e","i","p","1","5","5",":","8","4","5","3">>
ChainArbitrum == <<"e","i","p","1","5","5",":","4","2","1","6","1">>
ChainSolana == <<"s","o","l","a","n","a",":","m","a","i","n","n","e","t">>

\* {"IS_CONTRACT": "true"}
TagsIsContract ==
    << [k |-> <<"I","S","_","C","O","N","T","R","A","C","T">>, v |-> StrV(TRUE_STR)] >>
\* {"usage_category": "DeFi", "contract_name": "X"}
TagsUsage ==
    << [k |-> <<"u","s","a","g","e","_","c","a","t","e","g","o","r","y">>,
        v |-> StrV(<<"D","e","F","i">>)],
       [k |-> <<"c","o","n","t","r","a","c","t","_","n","a","m","e">>,
        v |-> StrV(<<"X">>)] >>
\* {"usage_category": "game"}: outside the value set of usage_category
TagsBadEnum ==
    << [k |-> <<"u","s","a","g","e","_","c","a","t","e","g","o","r","y">>,
        v |-> StrV(<<"g","a","m","e">>)] >>

\* {"constructor": "x"}: a tag no registry defines
TagsConstructor ==
    << [k |-> <<"c","o","n","s","t","r","u","c","t","o","r">>, v |-> StrV(<<"x">>)] >>

GoodRef == <<"0","x">> \o [i \in 1..64 |-> IF i % 2 = 1 THEN "A" ELSE "9"]
BadRef == <<"0","x","z","z">>

LabelInputs ==
    { [address |-> a, chainId |-> c, tags |-> g, refUid |-> r] :
        a \in {AddrA, buildCaip10(ChainArbitrum, AddrA), BadAddr},
        c \in {Undefined, <<"a","u","t","o">>, <<"-">>, <<"_">>, ChainBase,
                ChainArbitrum},
        g \in {TagsIsContract, TagsBadEnum},
        r \in {Undefined, BadRef} }
    \cup { [address |-> SolanaAddr, chainId |-> ChainSolana, tags |-> TagsUsage,
            refUid |-> GoodRef],
           [address |-> AddrA, chainId |-> ChainBase, tags |-> TagsConstructor,
            refUid |-> Undefined] }

NoBulkRecord ==
    [address |-> Undefined, caip10 |-> Undefined, caip_10 |-> Undefined,
     chainId |-> Undefined, chain_id |-> Undefined, chainID |-> Undefined,
     tags |-> <<>>, refUid |-> Undefined, refuid |-> Undefined, ref_uid |-> Undefined]

BulkRecordInputs ==
    { [NoBulkRecord EXCEPT !.address = AddrA, !.chain_id = ChainBase,
                           !.tags = TagsIsContract],
      [NoBulkRecord EXCEPT !.caip10 = buildCaip10(ChainArbitrum, AddrB),
                           !.tags = TagsUsage, !.ref_uid = GoodRef],
      [NoBulkRecord EXCEPT !.address = BadAddr, !.chainId = ChainBase,
                           !.tags = TagsIsContract] }

BulkInputs == UNION { [1..n -> BulkRecordInputs] : n \in 1..MaxBulk }

NoTrustList == [ownerName |-> <<>>, attesters |-> <<>>, attestations |-> <<>>]

TrustListInputs ==
    { [ownerName |-> o, attesters |-> a, attestations |-> <<>>] :
        o \in { <<"O","L","I">>, <<"a","b">>, <<"O","l","é">> },
        a \in { <<>>, << <<"{","}">> >>, NotAnArray } }

RevokeInputs == { GoodRef, BadRef }

\* options.onchain: true, false or absent
OnchainOptions == {"true", "false", "unset"}
Truthy(option) == option = "true"

\* crypto.randomBytes(32): the salts it may return
Salts == {"0xsalt1", "0xsalt2"}

\* the network may fail or succeed
Outcomes == {"ok", "fail"}

-----------------------------------------------------------------------------
(* The state of a call *)

NoLabel == [address |-> <<>>, chainId |-> Undefined, tags |-> <<>>, refUid |-> Undefined]

IdleCall ==
    [op |-> "none", pc |-> "idle", onchain |-> "unset",
     payload |-> NoLabel,        \* submitLabel, validateLabel
     labels |-> <<>>,            \* submitLabelBulk
     trustList |-> NoTrustList,  \* submitTrustList
     uid |-> <<>>,               \* revoke
     validated |-> <<>>,         \* the labels validateLabel returned
     attestations |-> <<>>,      \* the attestations signed so far
     uids |-> <<>>,              \* their UIDs
     requests |-> <<>>,          \* the requests of the transaction sent
     txHash |-> ""]

\* an error a request rejects with: an AxiosError with the status and the
\* body of the response, when there is one (body is its JSON text), or
\* another Error; all have a message
NoUpstream == [axios |-> FALSE, status |-> "", body |-> "", message |-> ""]

\* the API answers 400 with the reasons it rejects the attestation for, or
\* cannot be reached
PostFailures ==
    { [axios |-> TRUE, status |-> "400", body |-> "{\"detail\":\"invalid attestation\"}",
       message |-> "Request failed with status code 400"],
      [axios |-> TRUE, status |-> "", body |-> "", message |-> "Network Error"] }

\* the signer refuses, the node rejects the transaction, the transaction is
\* not confirmed
SignFailure == [NoUpstream EXCEPT !.message = "user rejected action"]
TxFailure == [NoUpstream EXCEPT !.message = "execution reverted"]
WaitFailure == [NoUpstream EXCEPT !.message = "transaction replaced"]

\* formatAxiosError: the parts of `HTTP ${status}: ${body}`, or String(err)
formatAxiosError(err) ==
    IF err.axios
    THEN [http |-> TRUE,
          status |-> IF err.status = "" THEN "unknown" ELSE err.status,
          text |-> IF err.body # "" THEN err.body ELSE err.message]
    ELSE [http |-> FALSE, status |-> "", text |-> err.message]

\* what an error thrown by the client says of the error that caused it:
\* nothing, the message the client made of it (prefix and formatAxiosError),
\* or the error itself
NoCause ==
    [wrapped |-> FALSE, prefix |-> "", formatted |-> formatAxiosError(NoUpstream),
     raw |-> NoUpstream]

NoResponse ==
    [status |-> "none", error |-> "", success |-> FALSE, onchain |-> FALSE,
     transaction_hash |-> "", uid |-> NoUid, uids |-> <<>>, label |-> NoLabel,
     cause |-> NoCause]

\* a step of the call, as trace records it
Event(kind, ok, k, requests, posted, to, fn) ==
    [kind |-> kind, ok |-> ok, k |-> k, requests |-> requests, posted |-> posted,
     to |-> to, fn |-> fn, uid |-> <<>>, error |-> NoUpstream]

\* the call throws
Throw(error) ==
    /\ call' = [call EXCEPT !.pc = "done"]
    /\ response' = [NoResponse EXCEPT !.status = "thrown", !.error = error]

\* the call throws new Error(prefix + formatAxiosError(err))
ThrowWrapped(error, prefix, err) ==
    /\ call' = [call EXCEPT !.pc = "done"]
    /\ response' = [NoResponse EXCEPT
                       !.status = "thrown", !.error = error,
                       !.cause = [NoCause EXCEPT !.wrapped = TRUE, !.prefix = prefix,
                                                 !.formatted = formatAxiosError(err)]]

\* an awaited request rejects with err and nothing catches it
Rethrow(error, err) ==
    /\ call' = [call EXCEPT !.pc = "done"]
    /\ response' = [NoResponse EXCEPT !.status = "thrown", !.error = error,
                                      !.cause = [NoCause EXCEPT !.raw = err]]

\* a call begins when the client is not in one: nothing of the previous call
\* is kept
CanBegin == call.pc = "idle"


NoDefinitions == [tagDefinitions |-> {}, valueSets |-> {}]

\* the call returns r
Return(r) ==
    /\ call' = [call EXCEPT !.pc = "done"]
    /\ response' = r

Returned == [NoResponse EXCEPT !.status = "returned"]

-----------------------------------------------------------------------------
(* client.ts: the calls of OliClient.  A call proceeds from one await to   *)
(* the next; call.pc names the await it is at.                             *)

\* submitLabel(payload, options) is called
SubmitLabel ==
    /\ CanBegin
    /\ \E payload \in LabelInputs, onchain \in OnchainOptions :
        call' = [IdleCall EXCEPT !.op = "submitLabel", !.pc = "init",
                                 !.onchain = onchain, !.payload = payload]
    /\ trace' = <<>>
    /\ response' = NoResponse
    /\ UNCHANGED <<signer, definitions, cacheFile, now, pin, pout>>

\* submitLabelBulk(labels, options) is called
SubmitLabelBulk ==
    /\ CanBegin
    /\ \E labels \in BulkInputs, onchain \in OnchainOptions :
        call' = [IdleCall EXCEPT !.op = "submitLabelBulk", !.pc = "init",
                                 !.onchain = onchain, !.labels = labels]
    /\ trace' = <<>>
    /\ response' = NoResponse
    /\ UNCHANGED <<signer, definitions, cacheFile, now, pin, pout>>

\* submitTrustList(payload, options) is called
SubmitTrustList ==
    /\ CanBegin
    /\ \E payload \in TrustListInputs, onchain \in OnchainOptions :
        call' = [IdleCall EXCEPT !.op = "submitTrustList", !.pc = "init",
                                 !.onchain = onchain, !.trustList = payload]
    /\ trace' = <<>>
    /\ response' = NoResponse
    /\ UNCHANGED <<signer, definitions, cacheFile, now, pin, pout>>

\* revoke(uid, options) is called
Revoke ==
    /\ CanBegin
    /\ \E uid \in RevokeInputs, onchain \in OnchainOptions :
        call' = [IdleCall EXCEPT !.op = "revoke", !.pc = "init",
                                 !.onchain = onchain, !.uid = uid]
    /\ trace' = <<>>
    /\ response' = NoResponse
    /\ UNCHANGED <<signer, definitions, cacheFile, now, pin, pout>>

\* init() is called on its own, as getClient of index.ts does
InitCall ==
    /\ CanBegin
    /\ call' = [IdleCall EXCEPT !.op = "init", !.pc = "init"]
    /\ trace' = <<>>
    /\ response' = NoResponse
    /\ UNCHANGED <<signer, definitions, cacheFile, now, pin, pout>>

\* the task oli:validate-label of index.ts: getClient, which awaits
\* client.init(), then client.validateLabel({address, chainId, tags})
ValidateTask ==
    /\ CanBegin
    /\ \E payload \in {l \in LabelInputs : l.refUid = Undefined} :
        call' = [IdleCall EXCEPT !.op = "validateTask", !.pc = "init",
                                 !.payload = payload]
    /\ trace' = <<>>
    /\ response' = NoResponse
    /\ UNCHANGED <<signer, definitions, cacheFile, now, pin, pout>>

\* validateLabel(payload): the method awaits nothing and loads nothing
ValidateLabel ==
    \E payload \in LabelInputs :
        /\ CanBegin
        /\ LET v == clientValidateLabel(payload, definitions.tagDefinitions,
                                        definitions.valueSets)
           IN  /\ call' = [IdleCall EXCEPT !.op = "validateLabel", !.pc = "done",
                                           !.payload = payload]
               /\ response' = IF v.err # ""
                              THEN [NoResponse EXCEPT !.status = "thrown", !.error = v.err]
                              ELSE [Returned EXCEPT !.label = v.label]
        /\ trace' = <<>>
        /\ UNCHANGED <<signer, definitions, cacheFile, now, pin, pout>>

\* await this.init(): loadDefinitions, with the remote reads it may make,
\* then validateNetworkConfig.  When loadDefinitions throws, the fields of
\* the client keep the definitions they had.
LoadStep ==
    /\ call.pc = "init"
    /\ \E outcome \in FetchOutcomes :
        LET loaded == loadDefinitions(cacheFile, config, now, outcome)
        IN  /\ outcome # "ok" => loaded.fetched
            /\ definitions' = IF loaded.thrown THEN definitions
                               ELSE [tagDefinitions |-> loaded.tagDefinitions,
                                     valueSets |-> loaded.valueSets]
            /\ cacheFile' = loaded.cache
            /\ trace' = IF loaded.fetched
                        THEN Append(trace, Event("fetch", loaded.fetchOk, 0, <<>>, <<>>,
                                                 config.tagDefinitionsUrl, "GET"))
                        ELSE trace
            /\ IF loaded.thrown THEN Throw("Yaml")
               ELSE IF ~validateNetworkConfig(config) THEN Throw("NetworkConfig")
               ELSE IF call.op = "init" THEN Return(Returned)
               ELSE /\ call' = [call EXCEPT !.pc = "validate"]
                    /\ UNCHANGED response
    /\ UNCHANGED <<signer, now, pin, pout>>

\* what the call validates before it signs or sends anything: [err, labels]
validateInput(c, defs, sets) ==
    CASE c.op \in {"submitLabel", "validateTask"} ->
            LET r == clientValidateLabel(c.payload, defs, sets)
            IN  [err |-> r.err, labels |-> IF r.err = "" THEN <<r.label>> ELSE <<>>]
      [] c.op = "submitLabelBulk" -> validateBulk(c.labels, defs, sets)
      [] c.op = "submitTrustList" ->
            [err |-> IF validateTrustList(c.trustList.ownerName, c.trustList.attesters,
                                          c.trustList.attestations)
                     THEN "" ELSE "TrustList",
             labels |-> <<>>]
      [] c.op = "revoke" ->
            [err |-> IF validateRefUid(c.uid).ok THEN "" ELSE "RefUid", labels |-> <<>>]

\* a choice of the mode that ignores options.onchain; C3 does not hold of it
modeOfOffchain(c) == IF c.op = "revoke" THEN "send" ELSE "sign"

\* the mode the call takes after validation: revoke sends a transaction
\* whatever options.onchain is
modeOf(c) == IF Truthy(c.onchain) \/ c.op = "revoke" THEN "send" ELSE "sign"

\* from the return of init() to the first request: validation, the choice of
\* the mode, requireSigner; the task oli:validate-label ends with the
\* validated label
ValidateStep ==
    /\ call.pc = "validate"
    /\ LET v == validateInput(call, definitions.tagDefinitions, definitions.valueSets)
       IN  IF v.err # ""
           THEN Throw(v.err) /\ UNCHANGED trace
           ELSE /\ trace' = Append(trace, Event("validated", TRUE, 0, <<>>, <<>>, "", ""))
                /\ IF call.op = "validateTask"
                   THEN Return([Returned EXCEPT !.label = v.labels[1]])
                   ELSE IF ~signer THEN Throw("NoSigner")
                   ELSE /\ call' = [call EXCEPT !.validated = v.labels, !.pc = modeOf(call)]
                        /\ UNCHANGED response
    /\ UNCHANGED <<signer, definitions, cacheFile, now, pin, pout>>

\* the typed data of record k of an off-chain submission
typedDataOf(c, k, clock, salt) ==
    IF c.op = "submitTrustList"
    THEN offchainTrustListTypedData(c.trustList, clock, salt)
    ELSE offchainLabelTypedData(c.validated[k], clock, salt)

\* a count that ends the signing loop after the first record; C2 does not
\* hold of it
countOfFirst(c) == 1

\* the number of attestations the call submits
countOf(c) == IF c.op = "submitTrustList" THEN 1 ELSE Len(c.validated)

\* await signer.signTypedData for the next record: the record is encoded,
\* the signature requested; the signer may refuse
SignStep ==
    /\ call.pc = "sign"
    /\ \E salt \in Salts, outcome \in Outcomes :
        LET k == Len(call.attestations) + 1
            typed == typedDataOf(call, k, now, salt)
            signature == SignatureOf(typed)
            attestation == postedAttestation(typed, signature)
        IN  /\ trace' = trace \o
                 << Event("encoded", TRUE, k, <<typed.message>>, <<>>, "", ""),
                    [Event("sign", outcome = "ok", k, <<typed.message>>, <<>>,
                           SignerAddress, "signTypedData")
                     EXCEPT !.error = IF outcome = "ok" THEN NoUpstream
                                      ELSE SignFailure] >>
            /\ IF outcome = "fail" THEN Rethrow("Sign", SignFailure)
               ELSE /\ call' = [call EXCEPT
                                  !.attestations = Append(@, attestation),
                                  !.uids = Append(@, attestation.sig.uid),
                                  !.pc = IF k = countOf(call) THEN "post" ELSE "sign"]
                    /\ UNCHANGED response
    /\ UNCHANGED <<signer, definitions, cacheFile, now, pin, pout>>

\* the API endpoint of the call (http.ts)
endpointOf(c) ==
    CASE c.op = "submitLabel" -> "/attestation"
      [] c.op = "submitLabelBulk" -> "/attestations/bulk"
      [] c.op = "submitTrustList" -> "/trust-list"

\* a post that is made again after it has failed; C23 does not hold of it
PostStepRetrying ==
    /\ call.pc = "post"
    /\ \E err \in {NoUpstream} \cup PostFailures :
        /\ trace' = Append(trace, [Event("post", err = NoUpstream, 0, <<>>,
                                         call.attestations, endpointOf(call), "POST")
                                   EXCEPT !.error = err])
        /\ IF err # NoUpstream THEN UNCHANGED <<call, response>>
           ELSE Return([Returned EXCEPT
                          !.success = TRUE, !.onchain = FALSE,
                          !.uid = IF call.op = "submitLabelBulk" THEN NoUid
                                  ELSE call.uids[1],
                          !.uids = IF call.op = "submitLabelBulk" THEN call.uids
                                   ELSE <<>>])
    /\ UNCHANGED <<signer, definitions, cacheFile, now, pin, pout>>

\* the message of the error a failed post is wrapped in
prefixOf(c) ==
    CASE c.op = "submitLabel" -> "Failed to post attestation: "
      [] c.op = "submitLabelBulk" -> "Failed to post bulk attestations: "
      [] c.op = "submitTrustList" -> "Failed to post trust list: "

\* await this.http.post...: one request carrying every signed attestation,
\* which resolves, or rejects with err
PostStep ==
    /\ call.pc = "post"
    /\ \E err \in {NoUpstream} \cup PostFailures :
        /\ trace' = Append(trace, [Event("post", err = NoUpstream, 0, <<>>,
                                         call.attestations, endpointOf(call), "POST")
                                   EXCEPT !.error = err])
        /\ IF err # NoUpstream THEN ThrowWrapped("Post", prefixOf(call), err)
           ELSE Return([Returned EXCEPT
                          !.success = TRUE, !.onchain = FALSE,
                          !.uid = IF call.op = "submitLabelBulk" THEN NoUid
                                  ELSE call.uids[1],
                          !.uids = IF call.op = "submitLabelBulk" THEN call.uids
                                   ELSE <<>>])
    /\ UNCHANGED <<signer, definitions, cacheFile, now, pin, pout>>

\* the requests with those of a bulk submission in reverse order; C5 does not
\* hold of it
requestsOfReversed(c) ==
    CASE c.op = "submitLabel" -> <<onchainLabelRequest(c.validated[1])>>
      [] c.op = "submitLabelBulk" ->
            [i \in 1..Len(c.validated) |->
                onchainLabelRequest(c.validated[Len(c.validated) + 1 - i])]
      [] c.op = "submitTrustList" -> <<onchainTrustListRequest(c.trustList)>>
      [] c.op = "revoke" -> <<>>

\* the requests of the transaction an on-chain submission sends
requestsOf(c) ==
    CASE c.op = "submitLabel" -> <<onchainLabelRequest(c.validated[1])>>
      [] c.op = "submitLabelBulk" ->
            [i \in 1..Len(c.validated) |-> onchainLabelRequest(c.validated[i])]
      [] c.op = "submitTrustList" -> <<onchainTrustListRequest(c.trustList)>>
      [] c.op = "revoke" -> <<>>

\* the contract function the transaction calls
functionOf(c) ==
    CASE c.op = "submitLabel" -> "attest"
      [] c.op = "submitLabelBulk" -> "multiAttest"
      [] c.op = "submitTrustList" -> "attest"
      [] c.op = "revoke" -> IF Truthy(c.onchain) THEN "revoke" ELSE "revokeOffchain"

\* await eas.attest / eas.multiAttest / eas.revoke / signer.sendTransaction:
\* the records are encoded and one transaction is broadcast to the registry
SendStep ==
    /\ call.pc = "send"
    /\ \E outcome \in Outcomes :
        LET requests == requestsOf(call)
            tx == [Event("tx", outcome = "ok", 0, requests, <<>>, config.easAddress,
                         functionOf(call))
                   EXCEPT !.uid = IF call.op = "revoke"
                                  THEN validateRefUid(call.uid).value ELSE <<>>,
                          !.error = IF outcome = "ok" THEN NoUpstream ELSE TxFailure]
        IN  /\ trace' = trace
                 \o [i \in 1..Len(requests) |->
                        Event("encoded", TRUE, i, <<requests[i]>>, <<>>, "", "")]
                 \o <<tx>>
            /\ IF outcome = "fail" THEN Rethrow("Tx", TxFailure)
               ELSE /\ call' = [call EXCEPT !.pc = "wait", !.requests = requests,
                                            !.txHash = "0xTxHash"]
                    /\ UNCHANGED response
    /\ UNCHANGED <<signer, definitions, cacheFile, now, pin, pout>>

\* await tx.wait(): the registry's UIDs, one per request and in their order
WaitStep ==
    /\ call.pc = "wait"
    /\ \E outcome \in Outcomes :
        /\ trace' = Append(trace, [Event("wait", outcome = "ok", 0, <<>>, <<>>,
                                         config.easAddress, "")
                                   EXCEPT !.error = IF outcome = "ok" THEN NoUpstream
                                                    ELSE WaitFailure])
        /\ IF outcome = "fail" THEN Rethrow("Wait", WaitFailure)
           ELSE LET uids == [i \in 1..Len(call.requests) |->
                                UidOfRegistry(call.requests[i], i)]
                IN  Return([Returned EXCEPT
                              !.success = call.op # "revoke",
                              !.onchain = call.op # "revoke",
                              !.transaction_hash = call.txHash,
                              !.uid = IF call.op \in {"submitLabel", "submitTrustList"}
                                      THEN uids[1] ELSE NoUid,
                              !.uids = IF call.op = "submitLabelBulk" THEN uids
                                       ELSE <<>>])
    /\ UNCHANGED <<signer, definitions, cacheFile, now, pin, pout>>


\* the caller's await of the call completes (index.ts logs the response and
\* the task ends); the client may be called again
CallerResumes ==
    /\ call.pc = "done"
    /\ call' = IdleCall
    /\ trace' = <<>>
    /\ response' = NoResponse
    /\ UNCHANGED <<signer, definitions, cacheFile, now, pin, pout>>

-----------------------------------------------------------------------------
(* The pure-function specification: Init draws an input, an action applies *)
(* one function of the source to it.                                       *)

StrAlphabet == {":", "a", "1"}

\* every string over StrAlphabet of at most n characters
Strings(n) == UNION {[1..k -> StrAlphabet] : k \in 0..n}

NamespaceInputs ==
    { <<"e","i","p","1","5","5">>, <<"E","I","P","1","5","5">>,
      <<"E","i","p","1","5","5">>, <<"e","i","p","1","5">>,
      <<"s","o","l","a","n","a">>, <<>> }
SeparatorInputs == { <<":">>, <<>>, <<":",":">> }
ReferenceInputs ==
    { <<"8","4","5","3">>, <<"a","n","y">>, <<"A","N","Y">>, <<"a","b","c">>,
      <<"1","a">>, <<"m","a","i","n","n","e","t">>, <<"1",":","2">>, <<>> }

\* "noseparator" and the other chain ids built from the parts above
ChainIdInputs ==
    { ns \o sep \o ref : ns \in NamespaceInputs, sep \in SeparatorInputs,
                         ref \in ReferenceInputs }
    \cup { <<"n","o","s","e","p","a","r","a","t","o","r">> }
    \cup Strings(3)

AddressInputs ==
    { <<"0","x","A","b","C">>, <<"a">>, <<>>, <<"a",":","b">>, <<":">> }

EmptyIn == [s |-> <<>>, chainId |-> <<>>, address |-> <<>>]
NoOut == [op |-> "none", ok |-> FALSE, s |-> <<>>, chainId |-> <<>>, address |-> <<>>]

PureInputs ==
    { [EmptyIn EXCEPT !.s = x] : x \in Strings(MaxStrLen) }
    \cup { [EmptyIn EXCEPT !.s = buildCaip10(c, a)] :
              c \in ChainIdInputs, a \in AddressInputs }
    \cup { [EmptyIn EXCEPT !.chainId = c, !.address = a] :
              c \in ChainIdInputs, a \in AddressInputs }

\* the client, constructed and not yet used
ClientIdle ==
    /\ definitions = NoDefinitions
    /\ call = IdleCall
    /\ trace = <<>>
    /\ response = NoResponse

\* the time at which the model starts: two hours after the epoch
StartTime == 2 * 60 * 60 * 1000

InitPure ==
    /\ pin \in PureInputs /\ pout = NoOut
    /\ signer = FALSE /\ cacheFile = NoCache /\ now = StartTime
    /\ ClientIdle

\* parseCaip10(pin.s)
ParseCaip10Step ==
    /\ pout.op = "none"
    /\ LET r == parseCaip10(pin.s)
       IN  pout' = [NoOut EXCEPT !.op = "parseCaip10", !.ok = r.ok,
                                 !.chainId = r.chainId, !.address = r.address]
    /\ UNCHANGED <<pin, signer, definitions, cacheFile, now, call, trace, response>>

\* isCaip10(pin.s)
IsCaip10Step ==
    /\ pout.op = "none"
    /\ pout' = [NoOut EXCEPT !.op = "isCaip10", !.ok = isCaip10(pin.s)]
    /\ UNCHANGED <<pin, signer, definitions, cacheFile, now, call, trace, response>>

\* buildCaip10(pin.chainId, pin.address)
BuildCaip10Step ==
    /\ pout.op = "none"
    /\ pout' = [NoOut EXCEPT !.op = "buildCaip10", !.ok = TRUE,
                             !.s = buildCaip10(pin.chainId, pin.address)]
    /\ UNCHANGED <<pin, signer, definitions, cacheFile, now, call, trace, response>>

\* parseCaip10 applied to the string buildCaip10 returned
ParseBuiltStep ==
    /\ pout.op = "buildCaip10"
    /\ LET r == parseCaip10(pout.s)
       IN  pout' = [NoOut EXCEPT !.op = "buildParse", !.ok = r.ok,
                                 !.chainId = r.chainId, !.address = r.address,
                                 !.s = pout.s]
    /\ UNCHANGED <<pin, signer, definitions, cacheFile, now, call, trace, response>>

\* buildCaip10 applied to the parts parseCaip10 returned
BuildParsedStep ==
    /\ pout.op = "parseCaip10" /\ pout.ok
    /\ pout' = [pout EXCEPT !.op = "parseBuild",
                            !.s = buildCaip10(pout.chainId, pout.address)]
    /\ UNCHANGED <<pin, signer, definitions, cacheFile, now, call, trace, response>>

\* validateCaip2(pin.chainId)
ValidateCaip2Step ==
    /\ pout.op = "none"
    /\ pout' = [NoOut EXCEPT !.op = "validateCaip2", !.ok = validateCaip2(pin.chainId)]
    /\ UNCHANGED <<pin, signer, definitions, cacheFile, now, call, trace, response>>

vars == <<signer, definitions, cacheFile, now, call, trace, response, pin, pout>>

NextCaip ==
    \/ ParseCaip10Step
    \/ IsCaip10Step
    \/ BuildCaip10Step
    \/ ParseBuiltStep
    \/ BuildParsedStep
    \/ ValidateCaip2Step

SpecCaip == InitPure /\ [][NextCaip]_vars

-----------------------------------------------------------------------------
(* The client specification *)

\* A client with or without a signer; no cache file, a fresh one or one
\* older than the time to live (cacheTtlMinutes = 60)
Init ==
    /\ signer \in BOOLEAN
    /\ now = StartTime
    /\ cacheFile \in { NoCache,
                       CacheAt(StartTime, RemoteTagDefinitions, RemoteValueSets),
                       CacheAt(0, RemoteTagDefinitions, RemoteValueSets) }
    /\ ClientIdle
    /\ pin = EmptyIn /\ pout = NoOut

Next ==
    \/ SubmitLabel
    \/ SubmitLabelBulk
    \/ SubmitTrustList
    \/ Revoke
    \/ InitCall
    \/ ValidateTask
    \/ ValidateLabel
    \/ LoadStep
    \/ ValidateStep
    \/ SignStep
    \/ PostStep
    \/ SendStep
    \/ WaitStep
    \/ CallerResumes

Spec == Init /\ [][Next]_vars

-----------------------------------------------------------------------------
(* The address specification: Init draws an address and a chain id, the    *)
(* action applies validateAddressForChain to them.                         *)

\* the longest address among the inputs
MaxAddrLen == 68

\* the number of hex letters of the address whose every spelling is an input
MaxLetters == 4

\* addresses of every length up to MaxAddrLen, without and with a ':'
PlainAddressInputs ==
    { [i \in 1..n |-> "a"] : n \in 0..MaxAddrLen }
    \cup UNION { { [i \in 1..n |-> IF i = p THEN ":" ELSE "a"] : p \in {1, n} } :
                    n \in 1..MaxAddrLen }

\* the positions of the lower-case hex letters of an address
LetterPositions(base) == {i \in 3..Len(base) : base[i] \in HexLetterLower}

\* every spelling of a lower-case address in upper- and lower-case letters
CaseSpellings(base) ==
    { [i \in 1..Len(base) |-> IF i \in U THEN toUpperChar(base[i]) ELSE base[i]] :
          U \in SUBSET LetterPositions(base) }

\* a lower-case address of MaxLetters letters
AddrFewLetters ==
    <<"0","x">> \o [i \in 1..40 |->
                      IF i > 40 - MaxLetters THEN HexDigits[11 + (i % 6)] ELSE HexDigits[1 + (i % 10)]]

EvmAddressInputs ==
    CaseSpellings(AddrFewLetters)
    \cup { AddrA, AddrB, getChecksumAddress(AddrA), getChecksumAddress(AddrB),
           [i \in 1..42 |-> IF i = 2 THEN "x" ELSE toUpperChar(AddrA[i])],
           [i \in 1..42 |-> toUpperChar(AddrA[i])],
           SubSeq(AddrA, 3, 42),
           SubSeq(AddrA, 1, 41), AddrA \o <<"1">>,
           SubSeq(AddrA, 1, 41) \o <<"g">>,
           <<"0","x">>, <<>>, BadAddr, SolanaAddr }

EvmChainInputs ==
    { ChainBase, <<"E","I","P","1","5","5",":","1">>,
      <<"e","i","p","1","5","5",":","a","n","y">> }

OtherChainInputs ==
    { ChainSolana, <<"e","i","p","1","5","5","9",":","1">>,
      <<"b","i","p","1","2","2",":","0","0","0">> }

AddressChainInputs ==
    { [EmptyIn EXCEPT !.chainId = c, !.address = a] :
          c \in EvmChainInputs \cup OtherChainInputs,
          a \in PlainAddressInputs \cup EvmAddressInputs }

InitAddress ==
    /\ pin \in AddressChainInputs /\ pout = NoOut
    /\ signer = FALSE /\ cacheFile = NoCache /\ now = StartTime
    /\ ClientIdle

\* validateAddressForChain(pin.address, pin.chainId)
ValidateAddressForChainStep ==
    /\ pout.op = "none"
    /\ LET r == validateAddressForChain(pin.address, pin.chainId)
       IN  pout' = [NoOut EXCEPT !.op = "validateAddressForChain", !.ok = r.ok,
                                 !.address = r.value]
    /\ UNCHANGED <<pin, signer, definitions, cacheFile, now, call, trace, response>>

NextAddress == ValidateAddressForChainStep

SpecAddress == InitAddress /\ [][NextAddress]_vars

-----------------------------------------------------------------------------
(* The tag specification: Init draws a tag mapping, tag definitions and    *)
(* value sets, an action applies normalizeTags or validateTags to them.    *)
(* Here pin is [tags, tagDefinitions, valueSets] and pout is               *)
(* [op, err, tag, tags]: the error thrown ("" when the function returns),  *)
(* the tag its message names and the mapping returned.                     *)

\* the largest number of entries of a tag mapping among the inputs
MaxTags == 2

IsContractId == <<"i","s","_","c","o","n","t","r","a","c","t">>
UsageCategoryId == <<"u","s","a","g","e","_","c","a","t","e","g","o","r","y">>

\* "is_contract" and "usage_category" as a caller may spell them
TagKeyInputs ==
    { IsContractId, <<"I","S","_","C","O","N","T","R","A","C","T">>, UsageCategoryId }

TagValueInputs ==
    { StrV(<<" ","t","r","u","e"," ">>), StrV(FALSE_STR),
      StrV(<<"D","e","F","i">>), StrV(<<" ","n","f","t","\t">>), StrV(<<"g","a","m","e">>),
      NumV(1, FALSE), NumV(1, TRUE),
      ArrV(<< <<" ","d","e","f","i">>, <<"N","F","T">> >>),
      ArrV(<< <<"d","e","f","i">>, <<"g","a","m","e">> >>) }

\* values of a tag that holds an address
AddressValueInputs ==
    { StrV(<<" ">> \o AddrA \o <<" ">>), StrV(BadAddr), ArrV(<< AddrA >>) }

\* the mappings of at most n entries with values among vs, every key once, in
\* every order
TagMappings(vs, n) ==
    UNION { { g \in [1..k -> [k : TagKeyInputs, v : vs]] :
                \A i, j \in 1..k : i # j => g[i].k # g[j].k } : k \in 0..n }

TagDef(id, type, len) == [tag_id |-> id, type |-> type, minLength |-> len, maxLength |-> len]

\* is_contract defined with every type, or usage_category as a string or as
\* an array, beside the value set of usage_category
DefinitionInputs ==
    { [tagDefinitions |-> {TagDef(IsContractId, ty, -1)}, valueSets |-> RemoteValueSets] :
          ty \in {"boolean", "string", "integer", "float", "array"} }
    \cup { [tagDefinitions |-> {TagDef(UsageCategoryId, "string", -1)},
            valueSets |-> RemoteValueSets],
           [tagDefinitions |-> {TagDef(UsageCategoryId, "array", -1)},
            valueSets |-> RemoteValueSets] }

\* is_contract defined as an address: a string of 42 characters
AddressDefinition ==
    [tagDefinitions |-> {TagDef(IsContractId, "string", 42)}, valueSets |-> {}]

TagInputs ==
    { [tags |-> g, tagDefinitions |-> d.tagDefinitions, valueSets |-> d.valueSets] :
          g \in TagMappings(TagValueInputs, MaxTags) \cup {UndefinedTags},
          d \in DefinitionInputs }
    \cup { [tags |-> g, tagDefinitions |-> AddressDefinition.tagDefinitions,
            valueSets |-> AddressDefinition.valueSets] :
              g \in TagMappings(AddressValueInputs, MaxTags) }

NoTagsOut == [op |-> "none", err |-> "", tag |-> <<>>, tags |-> <<>>]

InitTags ==
    /\ pin \in TagInputs /\ pout = NoTagsOut
    /\ signer = FALSE /\ cacheFile = NoCache /\ now = StartTime
    /\ ClientIdle

\* normalizeTags(pin.tags, pin.tagDefinitions, pin.valueSets)
NormalizeTagsStep ==
    /\ pout.op = "none"
    /\ pout' = tagsOut("normalizeTags", pin.tags,
                       normalizeTags(pin.tags, pin.tagDefinitions, pin.valueSets),
                       pin.tagDefinitions, pin.valueSets)
    /\ UNCHANGED <<pin, signer, definitions, cacheFile, now, call, trace, response>>

\* validateTags(pin.tags, pin.tagDefinitions, pin.valueSets)
ValidateTagsStep ==
    /\ pout.op = "none"
    /\ pout' = tagsOut("validateTags", pin.tags,
                       validateTags(pin.tags, pin.tagDefinitions, pin.valueSets),
                       pin.tagDefinitions, pin.valueSets)
    /\ UNCHANGED <<pin, signer, definitions, cacheFile, now, call, trace, response>>

NextTags ==
    \/ NormalizeTagsStep
    \/ ValidateTagsStep

SpecTags == InitTags /\ [][NextTags]_vars

-----------------------------------------------------------------------------
(* The label-data specification: Init draws a CAIP-10 id and two tag       *)
(* mappings with the same entries, the second in any insertion order; the  *)
(* actions apply encodeLabelData to each.  Here pin is                     *)
(* [chainId, tags, other] and pout is [op, data, otherData].               *)

ContractNameId == <<"c","o","n","t","r","a","c","t","_","n","a","m","e">>

\* normalized mappings, as validateLabel returns them
EncodedMappings ==
    UNION { { g \in [1..k -> [k : {IsContractId, UsageCategoryId, ContractNameId},
                              v : {BoolV(TRUE), StrV(<<"d","e","f","i">>), StrV(<<"X">>),
                                   NumV(1, FALSE)}]] :
                \A i, j \in 1..k : i # j => g[i].k # g[j].k } : k \in 0..MaxTags }

\* the entries of g in every insertion order
Reorderings(g) ==
    { [i \in 1..Len(g) |-> g[p[i]]] : p \in Permutations(1..Len(g)) }

LabelDataInputs ==
    UNION { { [chainId |-> c, tags |-> g, other |-> h] :
                c \in {buildCaip10(ChainBase, AddrA), buildCaip10(ChainSolana, SolanaAddr)},
                h \in Reorderings(g) } : g \in EncodedMappings }

NoDataOut == [op |-> "none", data |-> <<>>, otherData |-> <<>>]

InitLabelData ==
    /\ pin \in LabelDataInputs /\ pout = NoDataOut
    /\ signer = FALSE /\ cacheFile = NoCache /\ now = StartTime
    /\ ClientIdle

\* encodeLabelData(pin.chainId, pin.tags)
EncodeLabelDataStep ==
    /\ pout.op = "none"
    /\ pout' = [pout EXCEPT !.op = "encoded", !.data = encodeLabelData(pin.chainId, pin.tags)]
    /\ UNCHANGED <<pin, signer, definitions, cacheFile, now, call, trace, response>>

\* encodeLabelData(pin.chainId, pin.other)
EncodeOtherStep ==
    /\ pout.op = "encoded"
    /\ pout' = [pout EXCEPT !.op = "both",
                            !.otherData = encodeLabelData(pin.chainId, pin.other)]
    /\ UNCHANGED <<pin, signer, definitions, cacheFile, now, call, trace, response>>

NextLabelData ==
    \/ EncodeLabelDataStep
    \/ EncodeOtherStep

SpecLabelData == InitLabelData /\ [][NextLabelData]_vars

-----------------------------------------------------------------------------
(* The UID specification: Init draws the arguments of two calls of         *)
(* calculateUidV2 that differ in at most one argument, the actions make    *)
(* the calls.  Here pin is [a, b], the arguments of the two calls, and     *)
(* pout is [op, a, b], what they gave.                                     *)

\* the largest number of bytes of the data argument among the inputs
MaxDataBytes == 2

\* a hex string of n bytes, every byte written with the digits d1 d2
HexOf(n, d1, d2) == <<"0","x">> \o [i \in 1..(2 * n) |-> IF i % 2 = 1 THEN d1 ELSE d2]

\* digests of 32 bytes, of other lengths, and strings that are no hex
DigestInputs ==
    { ZeroUid, HexOf(32, "5", "a"), HexOf(31, "5", "a"), HexOf(33, "5", "a"),
      HexOf(0, "0", "0"), BadRef }

\* addresses of 20 bytes, one of them in two spellings, and of other lengths
UidAddressInputs ==
    { AddrA, getChecksumAddress(AddrA), AddrB, HARDHAT_ATTESTATION_RECIPIENT,
      HexOf(19, "1", "a"), HexOf(21, "1", "a"), <<"0","x","1">> }

\* 0, 1, 255, 256, 65535, 65536, 2^31 - 1, 2^31, 2^32 - 1, 2^32, 2^32 + 1
\* and 2^53 - 1
NumberInputs ==
    { Limbs(0, 0, 0, 0), Limbs(0, 0, 0, 1), Limbs(0, 0, 0, 255), Limbs(0, 0, 0, 256),
      Limbs(0, 0, 0, 65535), Limbs(0, 0, 1, 0), Limbs(0, 0, 32767, 65535),
      Limbs(0, 0, 32768, 0), Limbs(0, 0, 65535, 65535), Limbs(0, 1, 0, 0),
      Limbs(0, 1, 0, 1), Limbs(31, 65535, 65535, 65535) }

DataInputs ==
    UNION { { <<"0","x">> \o spread(d) : d \in [1..n -> { <<"0","0">>, <<"f","f">> }] } :
              n \in 0..MaxDataBytes }

\* a call with well-formed arguments
UidArgs ==
    [schema |-> HexOf(32, "5", "a"), recipient |-> HARDHAT_ATTESTATION_RECIPIENT,
     attester |-> AddrA, timestamp |-> Limbs(0, 0, 0, 1), data |-> <<"0","x">>,
     expirationTime |-> Limbs(0, 0, 0, 0), revocable |-> TRUE, refUID |-> ZeroUid,
     salt |-> HexOf(32, "0", "7"), bump |-> Limbs(0, 0, 0, 0)]

\* the calls that differ from x in at most one argument
OneArgumentChanged(x) ==
    {x}
    \cup { [x EXCEPT !.schema = v] : v \in DigestInputs }
    \cup { [x EXCEPT !.refUID = v] : v \in DigestInputs }
    \cup { [x EXCEPT !.salt = v] : v \in DigestInputs }
    \cup { [x EXCEPT !.recipient = v] : v \in UidAddressInputs }
    \cup { [x EXCEPT !.attester = v] : v \in UidAddressInputs }
    \cup { [x EXCEPT !.timestamp = v] : v \in NumberInputs }
    \cup { [x EXCEPT !.expirationTime = v] : v \in NumberInputs }
    \cup { [x EXCEPT !.bump = v] : v \in NumberInputs }
    \cup { [x EXCEPT !.data = v] : v \in DataInputs }
    \cup { [x EXCEPT !.revocable = v] : v \in BOOLEAN }

UidInputs ==
    UNION { { [a |-> x, b |-> y] : y \in OneArgumentChanged(x) } :
              x \in { [UidArgs EXCEPT !.timestamp = v] : v \in NumberInputs }
                    \cup { [UidArgs EXCEPT !.schema = v] : v \in DigestInputs }
                    \cup { [UidArgs EXCEPT !.attester = v] : v \in UidAddressInputs } }

NoUidOut == [op |-> "none", a |-> NoUidV2, b |-> NoUidV2]

InitUid ==
    /\ pin \in UidInputs /\ pout = NoUidOut
    /\ signer = FALSE /\ cacheFile = NoCache /\ now = StartTime
    /\ ClientIdle

\* calculateUidV2 with the arguments x
uidOf(x) ==
    calculateUidV2(x.schema, x.recipient, x.attester, x.timestamp, x.data,
                   x.expirationTime, x.revocable, x.refUID, x.salt, x.bump)

\* the first call
CalculateUidV2Step ==
    /\ pout.op = "none"
    /\ pout' = [pout EXCEPT !.op = "calculated", !.a = uidOf(pin.a)]
    /\ UNCHANGED <<pin, signer, definitions, cacheFile, now, call, trace, response>>

\* the second call
CalculateOtherStep ==
    /\ pout.op = "calculated"
    /\ pout' = [pout EXCEPT !.op = "both", !.b = uidOf(pin.b)]
    /\ UNCHANGED <<pin, signer, definitions, cacheFile, now, call, trace, response>>

NextUid ==
    \/ CalculateUidV2Step
    \/ CalculateOtherStep

SpecUid == InitUid /\ [][NextUid]_vars

-----------------------------------------------------------------------------
(* The definitions specification: Init draws a configuration and a cache   *)
(* file; the clock advances and loadDefinitions is called, again and       *)
(* again.                                                                  *)

\* the number of half hours the clock advances
MaxTicks == 4

HalfHour == 30 * 60 * 1000

\* what oli.tagDefinitionsUrl and oli.cacheTtlMinutes of the user
\* configuration may be: the URL absent or empty ("") or one of the user's
\* own, the time to live absent or a number of minutes
UserConfigInputs ==
    { [tagDefinitionsUrl |-> u, cacheTtlMinutes |-> t] :
        u \in {"", "https://registry.example/tag_definitions.yml"},
        t \in { [set |-> FALSE, minutes |-> 0], [set |-> TRUE, minutes |-> 0],
                [set |-> TRUE, minutes |-> 30] } }

\* resolveConfig, lines 933 and 936, over the Base preset
resolveConfig(user) ==
    [config EXCEPT
        !.tagDefinitionsUrl = IF user.tagDefinitionsUrl = ""
                              THEN DEFAULT_TAG_DEFINITIONS_URL
                              ELSE user.tagDefinitionsUrl,
        !.cacheTtlMinutes = IF user.cacheTtlMinutes.set
                            THEN user.cacheTtlMinutes.minutes ELSE 60]

\* the configuration of the client: the plugin resolves the user's
\* (index.ts, getClient), or the caller of the constructor writes the
\* ResolvedConfig itself
ConfigInputs ==
    { [tagDefinitionsUrl |-> u.tagDefinitionsUrl, resolved |-> TRUE,
       cfg |-> resolveConfig(u)] : u \in UserConfigInputs }
    \cup { [tagDefinitionsUrl |-> "", resolved |-> FALSE,
            cfg |-> [config EXCEPT !.tagDefinitionsUrl = ""]] }

\* the definitions an earlier version of the registry served
OldTagDefinitions ==
    { [tag_id |-> <<"i","s","_","c","o","n","t","r","a","c","t">>,
       type |-> "string", minLength |-> -1, maxLength |-> -1] }

\* a cache file without fetchedAt, or with one that is no date
CacheUndated(defs, sets) ==
    [exists |-> TRUE, fetchedAt |-> [valid |-> FALSE, t |-> 0],
     tagDefinitions |-> defs, valueSets |-> sets]

\* the cache file at the start: none, one written a moment, an hour or two
\* hours ago, or an undated one
CacheInputs ==
    { NoCache, CacheUndated(OldTagDefinitions, {}) }
    \cup { CacheAt(t, OldTagDefinitions, {}) :
             t \in {StartTime, StartTime - 2 * HalfHour, 0} }

NoLoadOut ==
    [op |-> "none", cached |-> NoCache, clock |-> 0, fetched |-> FALSE,
     fetchOk |-> FALSE, thrown |-> FALSE, tagDefinitions |-> {}, valueSets |-> {}]

InitDefinitions ==
    /\ pin \in ConfigInputs /\ pout = NoLoadOut
    /\ cacheFile \in CacheInputs
    /\ now = StartTime
    /\ signer = FALSE
    /\ ClientIdle

\* Date.now() advances
TickStep ==
    /\ now < StartTime + MaxTicks * HalfHour
    /\ now' = now + HalfHour
    /\ UNCHANGED <<pin, pout, signer, definitions, cacheFile, call, trace, response>>

\* loadDefinitions(projectRoot, config, logger): pout keeps the cache file
\* it read, the time of the call and what it did
LoadDefinitionsStep ==
    /\ \E outcome \in FetchOutcomes :
        LET loaded == loadDefinitions(cacheFile, pin.cfg, now, outcome)
        IN  /\ outcome # "ok" => loaded.fetched
            /\ cacheFile' = loaded.cache
            /\ pout' = [op |-> "loadDefinitions", cached |-> cacheFile, clock |-> now,
                        fetched |-> loaded.fetched, fetchOk |-> loaded.fetchOk,
                        thrown |-> loaded.thrown,
                        tagDefinitions |-> loaded.tagDefinitions,
                        valueSets |-> loaded.valueSets]
    /\ UNCHANGED <<pin, signer, definitions, now, call, trace, response>>

NextDefinitions ==
    \/ TickStep
    \/ LoadDefinitionsStep

SpecDefinitions == InitDefinitions /\ [][NextDefinitions]_vars

-----------------------------------------------------------------------------
(* The label specification: Init draws a payload and the definitions of    *)
(* the client; OliClient.validateLabel is applied to the payload, then to  *)
(* the label it returned.                                                  *)

\* the values of the tags of a payload
LabelTagValueInputs ==
    { StrV(<<" ","t","r","u","e"," ">>), StrV(<<"D","e","F","i">>),
      StrV(<<" ","n","f","t","\t">>), NumV(1, TRUE),
      ArrV(<< <<" ","d","e","f","i">>, <<"N","F","T">> >>) }

\* a registry whose tag usage_category is an address (a string of 42
\* characters) with a value set of addresses, one written without the 0x
AddressSetDefinition ==
    [tagDefinitions |-> {TagDef(UsageCategoryId, "string", 42)},
     valueSets |-> { [tag_id |-> UsageCategoryId,
                      allowed |-> {SubSeq(AddrA, 3, 42), AddrB}] }]

\* the addresses a payload may give for that tag
AddressSetValueInputs == { StrV(SubSeq(AddrA, 3, 42)), StrV(AddrB), StrV(AddrA) }

\* payloads that differ in address, chain id and refUid, validated under the
\* definitions of the registries; payloads that differ in their tags, under
\* each of the definitions of the tag specification and under a registry of
\* address tags with a value set
LabelPayloadInputs ==
    { [payload |-> [address |-> a, chainId |-> c, tags |-> TagsIsContract, refUid |-> r],
       tagDefinitions |-> RemoteTagDefinitions, valueSets |-> RemoteValueSets] :
          a \in {AddrA, getAddress(AddrA).value, buildCaip10(ChainArbitrum, AddrA),
                 SolanaAddr, buildCaip10(ChainSolana, SolanaAddr), BadAddr},
          c \in {Undefined, <<"a","u","t","o">>, ChainBase, ChainArbitrum, ChainSolana},
          r \in {Undefined, GoodRef, BadRef} }
    \cup
    { [payload |-> [address |-> AddrA, chainId |-> ChainBase, tags |-> g,
                    refUid |-> Undefined],
       tagDefinitions |-> d.tagDefinitions, valueSets |-> d.valueSets] :
          g \in TagMappings(LabelTagValueInputs, MaxTags)
                  \cup TagMappings(AddressValueInputs, 1),
          d \in DefinitionInputs \cup {AddressDefinition} }
    \cup
    { [payload |-> [address |-> AddrA, chainId |-> ChainBase,
                    tags |-> << [k |-> UsageCategoryId, v |-> v] >>,
                    refUid |-> Undefined],
       tagDefinitions |-> AddressSetDefinition.tagDefinitions,
       valueSets |-> AddressSetDefinition.valueSets] : v \in AddressSetValueInputs }

NoLabelResult == [err |-> "", label |-> NoLabel]

NoLabelOut == [op |-> "none", first |-> NoLabelResult, second |-> NoLabelResult]

InitLabel ==
    /\ pin \in LabelPayloadInputs /\ pout = NoLabelOut
    /\ signer = FALSE /\ cacheFile = NoCache /\ now = StartTime
    /\ ClientIdle

\* client.validateLabel(payload)
ValidateLabelStep ==
    /\ pout.op = "none"
    /\ pout' = [pout EXCEPT
                  !.op = "validated",
                  !.first = clientValidateLabel(pin.payload, pin.tagDefinitions,
                                                pin.valueSets)]
    /\ UNCHANGED <<pin, signer, definitions, cacheFile, now, call, trace, response>>

\* client.validateLabel(label) of the label the first call returned
RevalidateStep ==
    /\ pout.op = "validated" /\ pout.first.err = ""
    /\ pout' = [pout EXCEPT
                  !.op = "revalidated",
                  !.second = clientValidateLabel(pout.first.label, pin.tagDefinitions,
                                                 pin.valueSets)]
    /\ UNCHANGED <<pin, signer, definitions, cacheFile, now, call, trace, response>>

NextLabel ==
    \/ ValidateLabelStep
    \/ RevalidateStep

SpecLabel == InitLabel /\ [][NextLabel]_vars

-----------------------------------------------------------------------------
(* Claims about the CAIP helpers *)

\* the positions (1-based) of the ':' characters of s
ColonPositions(s) == {i \in 1..Len(s) : s[i] = ":"}

\* a chain id with exactly one ':' and non-empty sides
OneColonNonEmptySides(c) ==
    /\ Cardinality(ColonPositions(c)) = 1
    /\ c[1] # ":"
    /\ c[Len(c)] # ":"

\* an address that is non-empty and holds no ':'
PlainAddress(a) == Len(a) >= 1 /\ ColonPositions(a) = {}

\* C8: buildCaip10 and parseCaip10 are mutual inverses on their valid
\* domains: parsing what was built from a valid chain id and a valid address
\* returns exactly that pair, and building from the parts of an accepted
\* string returns that string.
C8_BuildParseInverse ==
    /\ (pout.op = "buildParse" /\ OneColonNonEmptySides(pin.chainId)
                               /\ PlainAddress(pin.address))
          => (pout.ok /\ pout.chainId = pin.chainId /\ pout.address = pin.address)
    /\ pout.op = "parseBuild" => pout.s = pin.s

\* a chain id with one ':' and a plain address were built into an id and
\* parsed back
C8_Witness ==
    /\ pout.op = "buildParse"
    /\ OneColonNonEmptySides(pin.chainId)
    /\ PlainAddress(pin.address)
    /\ pout.ok
    /\ pout.chainId = <<"E","i","p","1","5","5",":","8","4","5","3">>

\* three non-empty segments without ':' separated by exactly two ':'
ThreeSegments(s) ==
    /\ Cardinality(ColonPositions(s)) = 2
    /\ \A i \in 1..Len(s) :
          s[i] = ":" => /\ i > 1 /\ i < Len(s)
                        /\ s[i - 1] # ":" /\ s[i + 1] # ":"

\* C9: parseCaip10(s) succeeds exactly when s is three non-empty segments
\* without ':' separated by exactly two ':', and isCaip10(s) is true exactly
\* when parseCaip10(s) does not fail.
C9_ParseAcceptsExactlyThreeSegments ==
    /\ pout.op = "parseCaip10" => (pout.ok <=> ThreeSegments(pin.s))
    /\ pout.op = "isCaip10" => (pout.ok <=> ThreeSegments(pin.s))

\* parseCaip10 has accepted a:1:a
C9_Witness ==
    /\ pout.op = "parseCaip10"
    /\ pout.ok
    /\ pin.s = <<"a",":","1",":","a">>

\* the claim's description of the chain ids validateCaip2 accepts
Caip2Accepted(c) ==
    /\ OneColonNonEmptySides(c)
    /\ LET p == CHOOSE i \in ColonPositions(c) : TRUE
           namespace == SubSeq(c, 1, p - 1)
           reference == SubSeq(c, p + 1, Len(c))
       IN  toLowerCase(namespace) = <<"e","i","p","1","5","5">>
              => \/ reference = <<"a","n","y">>
                 \/ \A i \in 1..Len(reference) : reference[i] \in DigitChars

\* C10: validateCaip2 succeeds exactly for the strings with one ':', a
\* non-empty namespace and a non-empty reference whose reference, under an
\* eip155 namespace (any letter case), is "any" or all decimal digits;
\* eip155:8453 and solana:mainnet succeed, eip155:abc and noseparator fail.
C10_ValidateCaip2 ==
    pout.op = "validateCaip2" =>
        /\ pout.ok <=> Caip2Accepted(pin.chainId)
        /\ pin.chainId = <<"e","i","p","1","5","5",":","8","4","5","3">> => pout.ok
        /\ pin.chainId = <<"s","o","l","a","n","a",":","m","a","i","n","n","e","t">> => pout.ok
        /\ pin.chainId = <<"e","i","p","1","5","5",":","a","b","c">> => ~pout.ok
        /\ pin.chainId = <<"n","o","s","e","p","a","r","a","t","o","r">> => ~pout.ok

\* validateCaip2 has accepted EIP155:any
C10_Witness ==
    /\ pout.op = "validateCaip2"
    /\ pin.chainId = <<"E","I","P","1","5","5",":","a","n","y">>
    /\ pout.ok

-----------------------------------------------------------------------------
(* Claims about the client.  trace holds, in their order, the steps the      *)
(* call in progress has taken: "fetch" (the remote reads of init),           *)
(* "validated", "encoded", "sign", "post", "tx" and "wait".                  *)

\* the positions of trace that hold an event of one of the kinds
EventsOf(kinds) == {i \in 1..Len(trace) : trace[i].kind \in kinds}

IsSubmission == call.op \in {"submitLabel", "submitLabelBulk", "submitTrustList"}
Completed == call.pc = "done" /\ response.status = "returned"
Failed == call.pc = "done" /\ response.status = "thrown"

\* the errors the validation of a label, a bulk record or a trust list throws
ValidationErrors ==
    {"MissingAddress", "Conflict", "ChainIdRequired", "Caip2", "Address",
     "TagsNotObject", "TagValue", "TagType", "address", "TypeError", "RefUid",
     "TrustList"}

\* the number of attestations the input of the call asks for
InputCount == IF call.op = "submitLabelBulk" THEN Len(call.labels) ELSE 1

\* C1: when submitLabelBulk fails because a record is invalid, no network
\* request has been made: no definitions fetch, no signature request, no API
\* post and no transaction.
C1_BulkFailsBeforeAnyRequest ==
    (call.op = "submitLabelBulk" /\ Failed /\ response.error \in ValidationErrors)
        => EventsOf({"fetch", "sign", "post", "tx"}) = {}

\* C2: a submission goes Received -> Validated -> Encoded -> (Signed |
\* Transacted) -> Submitted -> (Completed | Failed): nothing is encoded,
\* signed or sent before the validation of the whole input has succeeded,
\* each record is encoded before it is signed or sent, the API post comes
\* after the signature of every record, and a call that has ended has either
\* returned a result with success = true, after a post or a transaction that
\* succeeded, or raised an error, and not both.
C2_SubmissionStateOrder ==
    IsSubmission =>
        /\ \A i \in 1..Len(trace) :
            /\ trace[i].kind \in {"encoded", "sign", "tx", "post", "wait"}
                  => \E j \in 1..(i - 1) : trace[j].kind = "validated"
            /\ trace[i].kind = "sign"
                  => /\ i > 1 /\ trace[i - 1].kind = "encoded"
                     /\ trace[i - 1].k = trace[i].k
                     /\ trace[i - 1].requests = trace[i].requests
            /\ trace[i].kind = "tx"
                  => /\ Len(trace[i].requests) = InputCount
                     /\ \A k \in 1..Len(trace[i].requests) :
                           \E j \in 1..(i - 1) :
                               /\ trace[j].kind = "encoded" /\ trace[j].k = k
                               /\ trace[j].requests = <<trace[i].requests[k]>>
            /\ trace[i].kind = "post"
                  => /\ Len(trace[i].posted) = InputCount
                     /\ \A k \in 1..InputCount :
                           \E j \in 1..(i - 1) :
                               /\ trace[j].kind = "sign" /\ trace[j].ok /\ trace[j].k = k
                               /\ trace[j].requests = <<trace[i].posted[k].sig.message>>
            /\ trace[i].kind = "wait"
                  => i > 1 /\ trace[i - 1].kind = "tx" /\ trace[i - 1].ok
            /\ (trace[i].kind \in {"sign", "post", "tx", "wait"} /\ ~trace[i].ok)
                  => i = Len(trace)
        /\ call.pc = "done" =>
            LET submitted == /\ Len(trace) >= 1
                             /\ trace[Len(trace)].kind \in {"post", "wait"}
                             /\ trace[Len(trace)].ok
            IN  \/ /\ response.status = "returned" /\ response.success
                   /\ response.error = "" /\ submitted
                \/ /\ response.status = "thrown" /\ ~response.success
                   /\ response.error # "" /\ ~submitted

\* a bulk submission of two records or more has been signed record by record,
\* posted and has completed
C2_Witness ==
    /\ call.op = "submitLabelBulk" /\ Len(call.labels) >= 2 /\ Completed
    /\ response.success
    /\ EventsOf({"post"}) # {}

\* C3: the onchain option alone chooses the mode.  Unset or false: the
\* submission signs and posts and never sends a transaction, and its result
\* has onchain = false and no transaction_hash.  True: it sends exactly one
\* transaction, never asks for a signature nor posts, and its result has
\* onchain = true and a transaction_hash.
C3_ModeByOnchainOption ==
    IsSubmission =>
        IF call.onchain = "true"
        THEN /\ EventsOf({"sign", "post"}) = {}
             /\ Cardinality(EventsOf({"tx"})) <= 1
             /\ Completed => /\ Cardinality(EventsOf({"tx"})) = 1
                             /\ response.onchain
                             /\ response.transaction_hash # ""
        ELSE /\ EventsOf({"tx", "wait"}) = {}
             /\ Cardinality(EventsOf({"post"})) <= 1
             /\ Completed => /\ Cardinality(EventsOf({"post"})) = 1
                             /\ Cardinality(EventsOf({"sign"})) = InputCount
                             /\ ~response.onchain
                             /\ response.transaction_hash = ""

\* a submitLabel with onchain true has completed with its transaction hash
C3_Witness ==
    /\ call.op = "submitLabel" /\ call.onchain = "true" /\ Completed
    /\ response.onchain /\ response.transaction_hash # ""

\* C4: revoke is an on-chain call whatever options.onchain is: it never
\* posts to the API nor asks for a typed-data signature, a transaction it
\* sends goes to the registry contract and carries the uid, which is then
\* 0x and 64 hex digits (validateRefUid ran before), and a revoke that has
\* returned has sent exactly one transaction and returns its hash.
C4_RevokeAlwaysOnchain ==
    call.op = "revoke" =>
        /\ EventsOf({"post", "sign"}) = {}
        /\ \A i \in EventsOf({"tx"}) :
              /\ trace[i].to = config.easAddress
              /\ IsPrefixedHex(call.uid, 64)
              /\ trace[i].uid = call.uid
              /\ trace[i].fn = (IF call.onchain = "true" THEN "revoke"
                                ELSE "revokeOffchain")
        /\ Completed => /\ Cardinality(EventsOf({"tx"})) = 1
                        /\ response.transaction_hash # ""

\* a revoke without the onchain option has sent its transaction and returned
C4_Witness ==
    /\ call.op = "revoke" /\ call.onchain \in {"false", "unset"} /\ Completed
    /\ EventsOf({"tx"}) # {}

\* the label the client makes of bulk record i before it signs or sends it
BulkLabel(i) ==
    clientValidateLabel(normalizeBulkRecord(call.labels[i]).label,
                        definitions.tagDefinitions, definitions.valueSets).label

\* the data of an attestation of label l: its CAIP-10 id, then its tags
LabelData(l) == << l.chainId \o <<":">> \o l.address, JsonStringify(l.tags) >>

\* C5: a bulk submission that has completed was sent in one piece and in the
\* order of the input.  Off-chain: one post carries the N attestations,
\* attestation i is the one signature i was given for and uids[i] is the UID
\* of that signature.  On-chain: one multiAttest transaction carries the N
\* requests and N UIDs are returned, UID i the registry's for request i.  In
\* both modes record i encodes the CAIP-10 id and the tags of input label i.
C5_BulkOrderPreservingSingleShot ==
    (call.op = "submitLabelBulk" /\ Completed) =>
        LET N == Len(call.labels)
            posts == EventsOf({"post"})
            txs == EventsOf({"tx"})
            signs == EventsOf({"sign"})
        IN  /\ Len(response.uids) = N
            /\ IF call.onchain = "true"
               THEN /\ posts = {} /\ Cardinality(txs) = 1
                    /\ \A x \in txs :
                          /\ trace[x].fn = "multiAttest"
                          /\ Len(trace[x].requests) = N
                          /\ \A i \in 1..N :
                                /\ trace[x].requests[i].data = LabelData(BulkLabel(i))
                                /\ response.uids[i].src = "registry"
                                /\ response.uids[i].k = i
                                /\ response.uids[i].message = trace[x].requests[i]
               ELSE /\ txs = {} /\ Cardinality(posts) = 1
                    /\ Cardinality(signs) = N
                    /\ \A x \in posts :
                          /\ trace[x].to = "/attestations/bulk"
                          /\ Len(trace[x].posted) = N
                          /\ \A i \in 1..N :
                                /\ trace[x].posted[i].sig.message.data
                                      = LabelData(BulkLabel(i))
                                /\ \E s \in signs :
                                      /\ trace[s].k = i
                                      /\ \A s2 \in signs : trace[s2].k < i => s2 < s
                                      /\ trace[s].requests
                                            = <<trace[x].posted[i].sig.message>>
                                /\ response.uids[i].src = "signature"
                                /\ response.uids[i].message
                                      = trace[x].posted[i].sig.message
                                /\ response.uids[i] = trace[x].posted[i].sig.uid

\* a bulk submission of two different labels has completed on-chain
C5_Witness ==
    /\ call.op = "submitLabelBulk" /\ Completed /\ call.onchain = "true"
    /\ Len(call.labels) >= 2 /\ call.labels[1] # call.labels[2]
    /\ Len(response.uids) = Len(call.labels)

\* the label the call in progress has resolved: what validateLabel returned,
\* or what submitLabel goes on with
ResolvedLabel ==
    IF call.op = "validateLabel" THEN response.label ELSE call.validated[1]

\* the call has a resolved label
HasResolved ==
    \/ call.op = "validateLabel" /\ Completed
    \/ call.op = "submitLabel" /\ Len(call.validated) = 1

\* C6: for validateLabel and submitLabel of a payload whose address has the
\* CAIP-10 form: when chainId is unset or a placeholder ("auto", "-", "_"),
\* or equal to the chain id embedded in the address, the label resolves to
\* the embedded chain id and address; when chainId is another chain id the
\* call fails with the conflict error, whatever the tags are, and before it
\* validates, signs or sends anything (a submitLabel whose init() has thrown
\* ends there, before the label is looked at).
C6_Caip10Resolution ==
    (call.op \in {"validateLabel", "submitLabel"} /\ ThreeSegments(call.payload.address)) =>
        LET given == call.payload.chainId
            colons == ColonPositions(call.payload.address)
            second == CHOOSE i \in colons : \A j \in colons : j <= i
            embeddedChain == SubSeq(call.payload.address, 1, second - 1)
            embeddedAddress == SubSeq(call.payload.address, second + 1,
                                      Len(call.payload.address))
            placeholder == given \in {Undefined, <<>>, <<"a","u","t","o">>, <<"-">>, <<"_">>}
        IN  IF placeholder \/ given = embeddedChain
            THEN /\ HasResolved =>
                      /\ ResolvedLabel.chainId = embeddedChain
                      /\ toLowerCase(ResolvedLabel.address) = toLowerCase(embeddedAddress)
                 /\ Failed => response.error \notin {"Conflict", "ChainIdRequired"}
            ELSE /\ ~HasResolved
                 /\ trace # <<>> => (Len(trace) = 1 /\ trace[1].kind = "fetch")
                 /\ call.pc \in {"init", "validate", "done"}
                 /\ call.pc = "done" =>
                        (Failed /\ response.error \in {"Conflict", "Yaml"})
                 /\ (call.pc = "done" /\ response.error = "Yaml") =>
                        (call.op = "submitLabel" /\ trace[Len(trace)].kind = "fetch")

\* submitLabel of a CAIP-10 address with the placeholder "auto" has resolved
\* the label and gone on to sign it
C6_Witness ==
    /\ call.op = "submitLabel" /\ ThreeSegments(call.payload.address)
    /\ call.payload.chainId = <<"a","u","t","o">>
    /\ Len(call.validated) = 1 /\ call.validated[1].chainId = ChainArbitrum
    /\ EventsOf({"sign"}) # {}

\* 0x0000000000000000000000000000000000000003
RecipientMarker == <<"0","x">> \o [i \in 1..39 |-> "0"] \o <<"3">>

\* the attestations of trace: what was encoded, signed, posted and sent
Attested ==
    UNION { {trace[i].requests[k] : k \in 1..Len(trace[i].requests)} \cup
            {trace[i].posted[k].sig.message : k \in 1..Len(trace[i].posted)} :
            i \in 1..Len(trace) }

\* C7: every attestation, on-chain or off-chain, of a label, of a bulk record
\* or of a trust list has the marker 0x...03 as its recipient; the labeled
\* address is in the CAIP-10 id of the data and nowhere else.
C7_RecipientMarker ==
    /\ \A a \in Attested : a.recipient = RecipientMarker
    /\ \A i \in 1..Len(call.validated) :
          \A a \in Attested :
              (a.recipient = call.validated[i].address
                  => call.validated[i].address = RecipientMarker)
    /\ call.op \in {"submitLabel", "submitLabelBulk"} =>
          \A a \in Attested :
              \E i \in 1..Len(call.validated) :
                  LET id == a.data[1]
                      address == call.validated[i].address
                  IN  /\ Len(id) > Len(address)
                      /\ SubSeq(id, Len(id) - Len(address) + 1, Len(id)) = address

\* a label has been signed and posted with the marker, which is not its
\* address, as recipient
C7_Witness ==
    /\ call.op = "submitLabel" /\ Completed /\ call.onchain # "true"
    /\ \E i \in EventsOf({"post"}) :
          /\ Len(trace[i].posted) = 1
          /\ trace[i].posted[1].sig.message.recipient = RecipientMarker
          /\ trace[i].posted[1].sig.message.recipient # call.validated[1].address

-----------------------------------------------------------------------------
(* Claims about validateAddressForChain *)

\* the namespace of a chain id is eip155, in any letter case
NamespaceIsEip155(c) ==
    /\ ColonPositions(c) # {}
    /\ LET p == CHOOSE i \in ColonPositions(c) : \A j \in ColonPositions(c) : i <= j
       IN  toLowerCase(SubSeq(c, 1, p - 1)) = <<"e","i","p","1","5","5">>

AddressValidated == pout.op = "validateAddressForChain"

\* C11, as claimed: on a chain whose namespace is not eip155,
\* validateAddressForChain accepts an address only if it is non-empty, at
\* most 64 characters long and without ':', and returns it unchanged.
C11_NonEvmAddressAtMost64 ==
    (AddressValidated /\ ~NamespaceIsEip155(pin.chainId) /\ pout.ok)
        => /\ Len(pin.address) >= 1
           /\ Len(pin.address) <= 64
           /\ ColonPositions(pin.address) = {}
           /\ pout.address = pin.address

\* C11, amended: on a chain whose namespace is not eip155,
\* validateAddressForChain accepts an address only if it is non-empty, at
\* most 66 characters long and without ':', and returns it unchanged.
C11_NonEvmAddressAtMost66 ==
    (AddressValidated /\ ~NamespaceIsEip155(pin.chainId) /\ pout.ok)
        => /\ Len(pin.address) >= 1
           /\ Len(pin.address) <= 66
           /\ ColonPositions(pin.address) = {}
           /\ pout.address = pin.address

\* an address with upper-case letters has been accepted, as it is, on a
\* chain that is not eip155
C11_Witness ==
    /\ AddressValidated
    /\ pin.chainId = ChainSolana
    /\ pin.address = SolanaAddr
    /\ pout.ok
    /\ pout.address = SolanaAddr

\* a 20-byte hex value: forty hex digits, with or without 0x
TwentyByteHex(a) == IsPrefixedHex(a, 40) \/ IsBareHex(a, 40)

\* the 0x-prefixed lower-case spelling of a 20-byte hex value
LowerSpelling(a) ==
    toLowerCase(IF IsBareHex(a, 40) THEN <<"0","x">> \o a ELSE a)

\* C12: on an eip155 chain, validateAddressForChain returns for every
\* spelling of a 20-byte hex address, whatever the case of its letters, the
\* one checksummed string of that address, and fails for every other input.
C12_SameChecksumForEveryCase ==
    (AddressValidated /\ NamespaceIsEip155(pin.chainId))
        => IF TwentyByteHex(pin.address)
           THEN /\ pout.ok
                /\ pout.address = getChecksumAddress(LowerSpelling(pin.address))
           ELSE ~pout.ok

-----------------------------------------------------------------------------
(* Claims about normalizeTags and validateTags *)

\* r is s without the white space at its two ends
IsTrimOf(r, s) ==
    \E a \in 0..Len(s) : \E b \in a..Len(s) :
        /\ r = SubSeq(s, a + 1, b)
        /\ \A i \in 1..a : s[i] \in WhiteSpace
        /\ \A i \in (b + 1)..Len(s) : s[i] \in WhiteSpace
        /\ r # <<>> => (r[1] \notin WhiteSpace /\ r[Len(r)] \notin WhiteSpace)

\* s trimmed: the one string that is s without the white space at its ends
TrimmedOf(s) ==
    CHOOSE r \in UNION { {SubSeq(s, a, b) : b \in (a - 1)..Len(s)} : a \in 1..(Len(s) + 1) } :
        IsTrimOf(r, s)

\* the value the claim gives for the input value in: a string is trimmed,
\* and is a boolean when it then reads true or false; the strings of an array
\* are trimmed; any other value is kept
NormalizedOf(in) ==
    CASE in.t = "str" ->
            IF IsTrimOf(TRUE_STR, in.s) THEN BoolV(TRUE)
            ELSE IF IsTrimOf(FALSE_STR, in.s) THEN BoolV(FALSE)
            ELSE StrV(TrimmedOf(in.s))
      [] in.t = "arr" -> ArrV([i \in 1..Len(in.a) |-> TrimmedOf(in.a[i])])
      [] OTHER -> in

\* the mapping the caller gave (an absent one counts as empty)
GivenTags == IF pin.tags = UndefinedTags THEN <<>> ELSE pin.tags

\* the value the caller gave under the key that reads k in lower case; of
\* two such keys the later one counts
GivenUnder(k) ==
    GivenTags[CHOOSE i \in 1..Len(GivenTags) :
                /\ toLowerCase(GivenTags[i].k) = k
                /\ \A j \in (i + 1)..Len(GivenTags) : toLowerCase(GivenTags[j].k) # k].v

\* tag k is defined as an address: its stored string is the checksummed one
DefinedAsAddress(k) ==
    \E d \in pin.tagDefinitions :
        d.tag_id = k /\ d.type = "string" /\ d.minLength = 42 /\ d.maxLength = 42

TagsReturned == pout.op \in {"normalizeTags", "validateTags"} /\ pout.err = ""

\* C13: the mapping normalizeTags and validateTags return has the caller's
\* keys in lower case, each once, and under each key the caller's value
\* normalized: strings trimmed, "true" and "false" as booleans, the strings
\* of arrays trimmed (an address tag holds the checksummed spelling of its
\* trimmed string); the type and value-set checks see the normalized values.
C13_TagNormalization ==
    TagsReturned =>
        /\ \A i, j \in 1..Len(pout.tags) : i # j => pout.tags[i].k # pout.tags[j].k
        /\ {pout.tags[i].k : i \in 1..Len(pout.tags)}
              = {toLowerCase(GivenTags[i].k) : i \in 1..Len(GivenTags)}
        /\ \A i \in 1..Len(pout.tags) :
             LET k == pout.tags[i].k
                 v == pout.tags[i].v
             IN  IF DefinedAsAddress(k) /\ v.t = "str"
                 THEN /\ NormalizedOf(GivenUnder(k)).t = "str"
                      /\ v.s = getChecksumAddress(NormalizedOf(GivenUnder(k)).s)
                 ELSE v = NormalizedOf(GivenUnder(k))

\* {"IS_CONTRACT": " true "} has passed the boolean check of validateTags and
\* come back as {is_contract: true}
C13_Witness ==
    /\ pout.op = "validateTags"
    /\ pout.err = ""
    /\ pin.tags = << [k |-> <<"I","S","_","C","O","N","T","R","A","C","T">>,
                      v |-> StrV(<<" ","t","r","u","e"," ">>)] >>
    /\ TagDef(IsContractId, "boolean", -1) \in pin.tagDefinitions
    /\ pout.tags = << [k |-> IsContractId, v |-> BoolV(TRUE)] >>


\* the value v has the declared type ty
MatchesType(v, ty) ==
    CASE ty = "boolean" -> v.t = "bool"
      [] ty = "string"  -> v.t = "str"
      [] ty = "integer" -> v.t = "num" /\ ~v.frac
      [] ty = "float"   -> v.t = "num"
      [] ty = "array"   -> v.t = "arr"
      [] OTHER -> TRUE

\* the keys of the caller's mapping, in lower case
GivenKeys == {toLowerCase(GivenTags[i].k) : i \in 1..Len(GivenTags)}

\* the caller's value under k, normalized as the claim describes
NormalizedGiven(k) == NormalizedOf(GivenUnder(k))

\* the declared type of tag k matches the caller's value, once normalized
GivenMatchesType(k) ==
    \A d \in pin.tagDefinitions :
        d.tag_id = k => MatchesType(NormalizedGiven(k), d.type)

\* C14: validateTags returns only if the normalized value of every tag that
\* has a definition matches the declared type; a type error names a tag
\* that has a definition and whose value does not match it, so that a tag
\* without a definition is never the cause of one.
C14_TypeCheckOfDefinedTags ==
    pout.op = "validateTags" =>
        /\ pout.err = "" =>
             /\ \A k \in GivenKeys : GivenMatchesType(k)
             /\ \A i \in 1..Len(pout.tags) : \A d \in pin.tagDefinitions :
                  d.tag_id = pout.tags[i].k => MatchesType(pout.tags[i].v, d.type)
        /\ pout.err = "TagType" =>
             /\ pout.tag \in GivenKeys
             /\ \E d \in pin.tagDefinitions : d.tag_id = pout.tag
             /\ ~GivenMatchesType(pout.tag)
        /\ (\A k \in GivenKeys : GivenMatchesType(k)) => pout.err # "TagType"

\* validateTags has thrown the type error of is_contract, declared integer
\* and given 1.5, beside an undefined tag
C14_Witness ==
    /\ pout.op = "validateTags"
    /\ pout.err = "TagType"
    /\ pout.tag = IsContractId
    /\ TagDef(IsContractId, "integer", -1) \in pin.tagDefinitions
    /\ Len(pin.tags) = 2
    /\ pin.tags[1].k = UsageCategoryId
    /\ pin.tags[2] = [k |-> IsContractId, v |-> NumV(1, TRUE)]

\* the value v, or each of its elements, is an entry of allowed in lower case
InValueSet(v, allowed) ==
    IF v.t = "arr"
    THEN \A i \in 1..Len(v.a) : toLowerCase(v.a[i]) \in allowed
    ELSE toLowerCase(String(v)) \in allowed

\* C15, as claimed: whenever normalizeTags or validateTags returns, every tag
\* for which a value set exists holds a value (or an array of values) of
\* that set, compared without regard to case, whether or not the tag has a
\* definition.
C15_ValueSetAlwaysEnforced ==
    TagsReturned =>
        \A i \in 1..Len(pout.tags) : \A s \in pin.valueSets :
            s.tag_id = pout.tags[i].k => InValueSet(pout.tags[i].v, s.allowed)

\* tag k has a definition
Defined(k) == \E d \in pin.tagDefinitions : d.tag_id = k

\* C15, amended: whenever normalizeTags or validateTags returns, every tag
\* that has a definition and for which a value set exists holds a value (or
\* an array of values) of that set, compared without regard to case; the
\* value-set error names such a tag, whose value is not of its value set.
C15_ValueSetOfDefinedTags ==
    /\ TagsReturned =>
         \A i \in 1..Len(pout.tags) : \A s \in pin.valueSets :
             (s.tag_id = pout.tags[i].k /\ Defined(s.tag_id))
                 => InValueSet(pout.tags[i].v, s.allowed)
    /\ (pout.op \in {"normalizeTags", "validateTags"} /\ pout.err = "TagValue") =>
         /\ pout.tag \in GivenKeys
         /\ Defined(pout.tag)
         /\ \E s \in pin.valueSets :
              s.tag_id = pout.tag /\ ~InValueSet(NormalizedGiven(pout.tag), s.allowed)

\* an array with one element outside the value set has been rejected, and
\* the error names its tag
C15_Witness ==
    /\ pout.op = "normalizeTags"
    /\ pout.err = "TagValue"
    /\ pout.tag = UsageCategoryId
    /\ pin.valueSets = RemoteValueSets
    /\ TagDef(UsageCategoryId, "array", -1) \in pin.tagDefinitions
    /\ pin.tags = << [k |-> UsageCategoryId,
                      v |-> ArrV(<< <<"d","e","f","i">>, <<"g","a","m","e">> >>)] >>

\* C16: a defined tag with the value set {defi, nft} and the value "DeFi" is
\* accepted and returned as the entry "defi" of the value set; the value
\* "game" is rejected with the value-set error.
C16_StoredAsValueSetEntry ==
    (/\ pout.op \in {"normalizeTags", "validateTags"}
     /\ Len(GivenTags) = 1
     /\ GivenTags[1].k = UsageCategoryId
     /\ pin.valueSets = RemoteValueSets
     /\ \E d \in pin.tagDefinitions : d.tag_id = UsageCategoryId /\ d.type = "string")
        => /\ GivenTags[1].v = StrV(<<"D","e","F","i">>)
                => /\ pout.err = ""
                   /\ pout.tags = << [k |-> UsageCategoryId, v |-> StrV(<<"d","e","f","i">>)] >>
           /\ GivenTags[1].v = StrV(<<"g","a","m","e">>)
                => pout.err = "TagValue" /\ pout.tag = UsageCategoryId


-----------------------------------------------------------------------------
(* Claims about encodeLabelData *)

\* two mappings hold the same keys with the same values
SameMapping(g, h) ==
    {<<g[i].k, g[i].v>> : i \in 1..Len(g)} = {<<h[i].k, h[i].v>> : i \in 1..Len(h)}

\* C17: encodeLabelData gives the same bytes for the same CAIP-10 id and two
\* tag mappings that hold the same keys with the same values, whatever the
\* insertion order of their keys.
C17_SameBytesForSameMapping ==
    (pout.op = "both" /\ SameMapping(pin.tags, pin.other))
        => pout.otherData = pout.data


-----------------------------------------------------------------------------
(* Claims about calculateUidV2 *)

\* the number of bytes a hex string writes
ByteLength(h) == (Len(h) - 2) \div 2

\* the fixed-width arguments of a call have their widths
WellFormed(x) ==
    /\ ByteLength(x.schema) = 32 /\ ByteLength(x.refUID) = 32 /\ ByteLength(x.salt) = 32
    /\ ByteLength(x.recipient) = 20 /\ ByteLength(x.attester) = 20

\* the unsigned big-endian bytes of the last n limbs of a number
RECURSIVE BigEndian(_, _)
BigEndian(num, n) ==
    IF n = 0 THEN <<>>
    ELSE BigEndian(SubSeq(num, 1, Len(num) - 1), n - 1)
         \o << num[Len(num)] \div 256, num[Len(num)] % 256 >>

\* C18: the bytes calculateUidV2 hashes are, in this order, version 2 on 2
\* bytes, schema, recipient, attester, timestamp on 8 bytes, expirationTime
\* on 8 bytes, revocable as one byte 0 or 1, refUID, data, salt and bump on
\* 4 bytes, every number as its unsigned big-endian representation, for
\* every timestamp and expirationTime below 2^64 and every bump below 2^32.
C18_PackedLayout ==
    (/\ pout.op \in {"calculated", "both"}
     /\ WellFormed(pin.a)
     /\ pout.a.ok
     /\ pin.a.bump[1] = 0 /\ pin.a.bump[2] = 0)
        => pout.a.packed =
             <<0, 2>>
             \o getBytes(pin.a.schema).bytes
             \o getBytes(pin.a.recipient).bytes
             \o getBytes(pin.a.attester).bytes
             \o BigEndian(pin.a.timestamp, 4)
             \o BigEndian(pin.a.expirationTime, 4)
             \o (IF pin.a.revocable THEN <<1>> ELSE <<0>>)
             \o getBytes(pin.a.refUID).bytes
             \o getBytes(pin.a.data).bytes
             \o getBytes(pin.a.salt).bytes
             \o BigEndian(pin.a.bump, 2)

\* the two calls have the same arguments: the same numbers and flag, and hex
\* strings that write the same bytes
SameArguments(x, y) ==
    /\ toLowerCase(x.schema) = toLowerCase(y.schema)
    /\ toLowerCase(x.recipient) = toLowerCase(y.recipient)
    /\ toLowerCase(x.attester) = toLowerCase(y.attester)
    /\ x.timestamp = y.timestamp
    /\ toLowerCase(x.data) = toLowerCase(y.data)
    /\ x.expirationTime = y.expirationTime
    /\ x.revocable = y.revocable
    /\ toLowerCase(x.refUID) = toLowerCase(y.refUID)
    /\ toLowerCase(x.salt) = toLowerCase(y.salt)
    /\ x.bump = y.bump

\* C19: two calls of calculateUidV2 with the same arguments give the same
\* digest, and two calls that differ in one argument give different packed
\* bytes and different digests.
C19_DigestSensitiveToEveryField ==
    (pout.op = "both" /\ pout.a.ok /\ pout.b.ok)
        => /\ SameArguments(pin.a, pin.b) => pout.a.digest = pout.b.digest
           /\ ~SameArguments(pin.a, pin.b)
                => (pout.a.packed # pout.b.packed /\ pout.a.digest # pout.b.digest)

\* C20: calculateUidV2 gives a digest only when schema, refUID and salt are
\* 32 bytes and recipient and attester 20 bytes long.
C20_WrongWidthFails ==
    (pout.op \in {"calculated", "both"} /\ pout.a.ok) => WellFormed(pin.a)

-----------------------------------------------------------------------------
(* Claims about the loading of the definitions by a call *)

\* the remote reads of the call were made and one of them was rejected
RemoteReadFailed == \E i \in EventsOf({"fetch"}) : ~trace[i].ok

\* the errors with which the checks of the tags end a call
TagErrors == {"TagValue", "TagType", "TypeError", "address"}

\* C21: a call whose remote reads fail is not ended by the loading of the
\* definitions: it goes on with empty tag definitions and empty value sets,
\* and no tag of its input is then rejected.
C21_FetchFailureNeverAborts ==
    RemoteReadFailed
        => /\ definitions = NoDefinitions
           /\ ~(Failed /\ response.error \in {"Yaml", "NetworkConfig"})
           /\ ~(Failed /\ response.error \in TagErrors)

-----------------------------------------------------------------------------
(* Claims about loadDefinitions and the cache file *)

\* loadDefinitions has been called
Loaded == pout.op = "loadDefinitions"

\* the cache file the call read has a fetchedAt that is a date
CachedDated == pout.cached.exists /\ pout.cached.fetchedAt.valid

\* now - fetchedAt at the call, and the time to live, in milliseconds
CacheAge == pout.clock - pout.cached.fetchedAt.t
TimeToLive == pin.cfg.cacheTtlMinutes * 60 * 1000

\* the call returned the definitions of the cache file it read
ReturnedCached ==
    /\ ~pout.thrown
    /\ pout.tagDefinitions = pout.cached.tagDefinitions
    /\ pout.valueSets = pout.cached.valueSets

\* C22: a call of loadDefinitions that reads a cache file older than the time
\* to live makes the remote reads and returns what they give, not what the
\* file holds: when they succeed, the definitions and value sets just read,
\* which the cache file then holds with fetchedAt the time of the call, and
\* otherwise nothing of the file, which stays as it is.  A call that reads a
\* cache file no older than the time to live makes no remote read, returns
\* its definitions and leaves the file as it is.
C22_CacheUsedWhileFresh ==
    (Loaded /\ CachedDated) =>
        /\ CacheAge > TimeToLive =>
            /\ pout.fetched
            /\ (pout.fetchOk /\ ~pout.thrown) =>
                 /\ cacheFile = CacheAt(pout.clock, RemoteTagDefinitions, RemoteValueSets)
                 /\ pout.tagDefinitions = RemoteTagDefinitions
                 /\ pout.valueSets = RemoteValueSets
            /\ ~(pout.fetchOk /\ ~pout.thrown) =>
                 /\ cacheFile = pout.cached
                 /\ pout.tagDefinitions = {} /\ pout.valueSets = {}
        /\ CacheAge <= TimeToLive =>
            /\ ~pout.fetched
            /\ ReturnedCached
            /\ cacheFile = pout.cached

\* a cache file written at the start has grown older than the time to live
\* and a call has replaced it by what it read from the registries
C22_Witness ==
    /\ Loaded /\ CachedDated
    /\ pout.cached.fetchedAt.t = StartTime
    /\ pin.cfg.cacheTtlMinutes = 60
    /\ CacheAge > TimeToLive
    /\ pout.fetchOk /\ ~pout.thrown
    /\ cacheFile.fetchedAt.t = pout.clock
    /\ cacheFile.tagDefinitions = RemoteTagDefinitions

-----------------------------------------------------------------------------
(* Claims about the requests of a call *)

\* the requests a call makes to the signer, the API and the chain
RequestKinds == {"sign", "post", "tx"}

\* C23: within one submit or revoke call the signature of a record is
\* requested at most once, at most one post and at most one transaction are
\* made, and after a signature, a post, a transaction or its confirmation has
\* failed the call makes no further request.
C23_NoInternalRetry ==
    (IsSubmission \/ call.op = "revoke") =>
        \A i \in 1..Len(trace) : \A j \in (i + 1)..Len(trace) :
            /\ (trace[i].kind = "sign" /\ trace[j].kind = "sign")
                  => trace[i].k # trace[j].k
            /\ ~(trace[i].kind = "post" /\ trace[j].kind = "post")
            /\ ~(trace[i].kind = "tx" /\ trace[j].kind = "tx")
            /\ (trace[i].kind \in RequestKinds \cup {"wait"} /\ ~trace[i].ok)
                  => trace[j].kind \notin RequestKinds \cup {"wait"}

\* a bulk submission has failed at its post, made once after two signatures
\* or more
C23_Witness ==
    /\ call.op = "submitLabelBulk" /\ Failed /\ response.error = "Post"
    /\ Cardinality(EventsOf({"sign"})) >= 2
    /\ Cardinality(EventsOf({"post"})) = 1
    /\ ~trace[Len(trace)].ok

\* the last request of the call is a post or a transaction that failed
SubmissionFailed ==
    /\ call.pc = "done" /\ Len(trace) >= 1
    /\ trace[Len(trace)].kind \in {"post", "tx"}
    /\ ~trace[Len(trace)].ok

\* the error of the response is one the client made of the upstream error
\* err, with the status and the body of err in its message
WrapsUpstream(err) ==
    /\ response.cause.wrapped
    /\ response.cause.prefix # ""
    /\ err.status # "" => response.cause.formatted.status = err.status
    /\ err.body # "" => response.cause.formatted.text = err.body

\* C24: a submission whose post or whose transaction fails throws, does not
\* return success=true, and the error it throws is the client's wrapping of
\* the upstream error, with its status and body.
C24_SubmissionFailureWrapped ==
    (IsSubmission /\ SubmissionFailed) =>
        /\ Failed /\ ~response.success
        /\ WrapsUpstream(trace[Len(trace)].error)

-----------------------------------------------------------------------------
(* Claims about the validation of a label *)

\* C25: no step of the task oli:validate-label and no call of
\* OliClient.validateLabel requests a signature, posts to the API or sends a
\* transaction, and none changes the cache file of the definitions.
C25_ValidateHasNoSideEffects ==
    [][ call'.op \in {"validateTask", "validateLabel"}
          => /\ cacheFile' = cacheFile
             /\ \A i \in 1..Len(trace') : trace'[i].kind \notin RequestKinds ]_vars

-----------------------------------------------------------------------------
(* Claims about the offline mode and undated cache files *)

\* the call found no cache file, or one older than the time to live
NoFreshCache == ~pout.cached.exists \/ (CachedDated /\ CacheAge > TimeToLive)

\* C26: with tagDefinitionsUrl set to the empty string, a call of
\* loadDefinitions that finds no fresh cache makes no remote read and returns
\* empty tag definitions and empty value sets.
C26_OfflineMode ==
    (Loaded /\ pin.tagDefinitionsUrl = "" /\ NoFreshCache) =>
        /\ ~pout.fetched /\ ~pout.thrown
        /\ pout.tagDefinitions = {} /\ pout.valueSets = {}

-----------------------------------------------------------------------------
(* Claims about the signing of a bulk submission *)

\* record k of the call has been signed
Signed(k) == \E j \in EventsOf({"sign"}) : trace[j].ok /\ trace[j].k = k

\* C27: in an off-chain submitLabelBulk of N records the post is made after
\* the N records have been signed; when the signer is missing or the
\* signature of a record fails, the call throws, makes no post and returns
\* no UID, whatever it has signed before.
C27_BulkSignsAllBeforePost ==
    (call.op = "submitLabelBulk" /\ ~Truthy(call.onchain)) =>
        /\ EventsOf({"post"}) # {} => \A k \in 1..Len(call.labels) : Signed(k)
        /\ (\E j \in EventsOf({"sign"}) : ~trace[j].ok)
              => (Failed /\ response.error = "Sign")
        /\ (Failed /\ response.error \in {"NoSigner", "Sign"})
              => /\ EventsOf({"post"}) = {}
                 /\ response.uids = <<>> /\ response.uid = NoUid
                 /\ ~response.success

\* the signature of the second record or a later one is refused: the
\* records signed before it are neither posted nor returned
C27_Witness ==
    /\ call.op = "submitLabelBulk" /\ ~Truthy(call.onchain)
    /\ Failed /\ response.error = "Sign"
    /\ Len(call.attestations) >= 1
    /\ Signed(1) /\ ~Signed(Len(call.attestations) + 1)
    /\ EventsOf({"post"}) = {}

\* C28: a call of loadDefinitions uses a cache file without a remote read only
\* when its fetchedAt is a date no older than the time to live; a cache file
\* whose fetchedAt is missing or no date makes it read the registries.
C28_UndatedCacheIsStale ==
    (Loaded /\ pout.cached.exists) =>
        /\ ~pout.fetched => (pout.cached.fetchedAt.valid /\ CacheAge <= TimeToLive)
        /\ ~pout.cached.fetchedAt.valid => pout.fetched

-----------------------------------------------------------------------------
(* Claims about the coercion of boolean strings *)

\* tag k is declared a string
DefinedString(k) == \E d \in pin.tagDefinitions : d.tag_id = k /\ d.type = "string"

\* the string s reads true or false once trimmed
ReadsBoolean(s) == IsTrimOf(TRUE_STR, s) \/ IsTrimOf(FALSE_STR, s)

\* the caller gave a string under k, which is declared a string, and no
\* other tag of the mapping has a definition
StringGivenFor(k) ==
    /\ k \in GivenKeys /\ DefinedString(k) /\ GivenUnder(k).t = "str"
    /\ \A other \in GivenKeys \ {k} : ~Defined(other)

\* C29, as claimed: validateTags rejects a tag declared a string whose value
\* reads true or false once trimmed, and accepts every other string for it.
C29_OnlyBooleanStringsRejected ==
    pout.op = "validateTags" =>
        \A k \in GivenKeys :
            StringGivenFor(k) =>
                IF ReadsBoolean(GivenUnder(k).s) THEN pout.err # "" ELSE pout.err = ""

\* the value set of tag k rejects the caller's value, once normalized
ValueSetRejects(k) ==
    \E s \in pin.valueSets : s.tag_id = k /\ ~InValueSet(NormalizedGiven(k), s.allowed)

\* tag k is declared an address and the caller's string, trimmed, is none
AddressRejects(k) ==
    DefinedAsAddress(k) /\ ~getAddress(TrimmedOf(GivenUnder(k).s)).ok

\* C29, amended: validateTags rejects a tag declared a string whose value
\* reads true or false once trimmed (with the type error, unless the value
\* set of the tag has rejected the boolean before), and every other string
\* for it passes the type check: it is accepted unless the value set of the
\* tag or, for a tag declared an address, the address check rejects it.
C29_BooleanStringsFailStringCheck ==
    pout.op = "validateTags" =>
        \A k \in GivenKeys :
            StringGivenFor(k) =>
                IF ReadsBoolean(GivenUnder(k).s)
                THEN pout.err = IF ValueSetRejects(k) THEN "TagValue" ELSE "TagType"
                ELSE /\ pout.err # "TagType"
                     /\ pout.err = "TagValue" <=> (ValueSetRejects(k) /\ ~AddressRejects(k))
                     /\ pout.err = "address" <=> AddressRejects(k)
                     /\ pout.err = "" <=> (~ValueSetRejects(k) /\ ~AddressRejects(k))

\* is_contract, declared a string and given " true ", has been rejected with
\* the type error
C29_Witness ==
    /\ pout.op = "validateTags" /\ pout.err = "TagType"
    /\ StringGivenFor(IsContractId)
    /\ GivenUnder(IsContractId) = StrV(<<" ","t","r","u","e"," ">>)

-----------------------------------------------------------------------------
(* Claims about the validation of a validated label *)

\* C30: OliClient.validateLabel accepts every label it has returned, under
\* the same tag definitions and value sets, and returns it unchanged: the
\* same address, chainId, tags and refUid.
C30_ValidateLabelIdempotent ==
    pout.op = "revalidated" =>
        /\ pout.second.err = ""
        /\ pout.second.label.address = pout.first.label.address
        /\ pout.second.label.chainId = pout.first.label.chainId
        /\ pout.second.label.tags = pout.first.label.tags
        /\ pout.second.label.refUid = pout.first.label.refUid

=============================================================================
